---- MODULE Spec2Model ----
(***************************************************************************)
(* tunerate-api: the relational store (User, Artist, Album, Review), the   *)
(* review manager (ReviewsService behind ReviewsController and the global  *)
(* ValidationPipe), user removal, and the cache-aside entity resolvers     *)
(* (ArtistsService / AlbumsService in front of the music catalog).         *)
(*                                                                         *)
(* Every request runs in its own execution context; each `await` of a      *)
(* handler is one step, so requests interleave between store round trips.  *)
(***************************************************************************)
EXTENDS Integers, FiniteSets, Sequences, TLC

\* ---------------------------------------------------------------- bounds
NumProcs == 2          \* concurrent request contexts
MaxReviewId == 2       \* values the Review id sequence may hand out
MaxEntityId == 3       \* values the Artist / Album id sequences may hand out
MaxRows == 3           \* Review rows in the store when the queries start
MaxItems == 3          \* entries of one catalog search response
MaxUsers == 3          \* registered users when the queries start
MaxTime == 3           \* ticks of the clock
MaxTokens == 3         \* token requests sent to the catalog's token endpoint
MantissaBits == 53     \* significant bits of a JavaScript number

Procs == 1..NumProcs

\* An optional DTO field: <<>> when absent, <<v>> when present.
None == <<>>
Some(v) == <<v>>

\* ---------------------------------------------------------------- inputs
UserIdInputs == {1, 2}
AlbumIdInputs == {1, 2}
RatingInputs == {None, Some(0), Some(5), Some(6), Some(11)}
CommentInputs == {None, Some("c")}
ReviewIdInputs == 1..MaxReviewId
SkipInputs == {0, 1, MaxRows, MaxRows + 1}
TakeInputs == {0, 1, 2, 10}
SkipQueryInputs == {None} \cup {Some(k) : k \in {0, 1}}
TakeQueryInputs == {None} \cup {Some(k) : k \in {0, 2, 10}}
StoredRatings == {4, 5}
LimitInputs == {1, 2, 5, 10}

\* External ids are character sequences. The catalog knows the albums "a"
\* (by artist "r") and "b" (by artist "s"); "z" is unknown to it. A request
\* may carry an id with surrounding white space.
SP == " "
AlbumExternalInputs == {<<"a">>, <<SP, "a">>, <<"b">>, <<"z">>}
ArtistExternalInputs == {<<"r">>, <<"s">>, <<"z">>}
CatalogAlbums == {<<"a">>, <<"b">>}
CatalogArtists == {<<"r">>, <<"s">>}
CatalogArtistOf(e) == IF e = <<"a">> THEN <<"r">> ELSE <<"s">>
ArtistIdInputs == {1, 2}
ExpiresInInputs == {1, 2}

\* An entry of a catalog search response: its id, its album_type and its
\* total_tracks (absent or a number). The catalog writes types in lower case.
ItemInputs ==
  [id : {<<"a">>, <<"b">>},
   album_type : {"album", "ep", "single", "compilation"},
   total_tracks : {None, Some(1), Some(2)}]

RECURSIVE SeqsUpTo(_, _)
SeqsUpTo(S, n) ==
  IF n = 0 THEN {<<>>}
  ELSE LET shorter == SeqsUpTo(S, n - 1)
       IN shorter \cup {Append(q, x) : q \in {t \in shorter : Len(t) = n - 1}, x \in S}

SearchResponses == SeqsUpTo(ItemInputs, MaxItems)

VARIABLES
  users,      \* User rows
  artists,    \* Artist rows
  albums,     \* Album rows
  reviews,    \* Review rows
  nextId,     \* the SERIAL sequences of the four tables
  procs,      \* per request context: operation, position, arguments, locals
  artistReturned,  \* history: <<externalId, id>> of successful resolveArtist
  albumReturned,   \* history: <<externalId, id>> of successful resolveAlbum
  accessToken,     \* MusicApiService.accessToken: absent or the cached token
  tokenExpiry,     \* MusicApiService.tokenExpiry: absent or the time it ends
  now,             \* the clock read by new Date() and Date.now()
  configured,      \* the client id and secret are in the configuration
  responses        \* history: the token responses received so far

storeVars == <<users, artists, albums, reviews, nextId>>
histVars == <<artistReturned, albumReturned>>
tokenVars == <<accessToken, tokenExpiry, now, configured, responses>>
vars == <<users, artists, albums, reviews, nextId, procs, artistReturned, albumReturned,
          accessToken, tokenExpiry, now, configured, responses>>

Idle ==
  [op |-> "idle", pc |-> "idle", userId |-> 0, albumId |-> 0, reviewId |-> 0,
   rating |-> None, comment |-> None, externalId |-> <<>>, catalogId |-> <<>>,
   artistExternalId |-> <<>>, artistId |-> 0, ret |-> "done", calls |-> 0,
   hit |-> FALSE, after |-> FALSE, artistInsert |-> "none",
   albumInsert |-> "none", skip |-> 0, take |-> 0, page |-> None,
   total |-> None, hasMore |-> FALSE, averageRating |-> [int |-> 0, frac |-> <<>>],
   reviewCount |-> 0, limit |-> 0, items |-> <<>>, found |-> None,
   detail |-> [externalId |-> <<>>, via |-> "none"], altPath |-> <<>>,
   requests |-> 0, query |-> None, rows |-> {}, token |-> None,
   exchanged |-> FALSE, result |-> "none", resId |-> 0,
   answer |-> "none"]

\* AlbumsController.findByExternalId rethrows a NotFoundException and throws
\* a new NotFoundException in place of every other error of the service.
AlbumsController_findByExternalId_catch(res) ==
  IF res = "ok" THEN "ok" ELSE "NotFound"

\* What the client is answered: the outcome of the service, which
\* AlbumsController.findByExternalId passes through its catch.
Response(op, res) ==
  IF op = "resolveAlbum" THEN AlbumsController_findByExternalId_catch(res) ELSE res

\* A handler that ended: `result` is "ok" or the error the service raised,
\* `answer` is what the client gets.
Finish(proc, res, id) ==
  [proc EXCEPT !.pc = "done", !.result = res, !.resId = id,
               !.answer = Response(proc.op, res)]

InFlight(ops) == Cardinality({p \in Procs : procs[p].op \in ops /\ procs[p].pc # "done"})

\* ------------------------------------------------------------- the store
\* Rows of the Artist, Album and User tables (the columns the core reads).
ArtistRow(id, e) == [id |-> id, externalId |-> e]
AlbumRow(id, e, artistId) == [id |-> id, externalId |-> e, artistId |-> artistId]
UserRow(id) == [id |-> id]

\* prisma.<table>.findUnique: the set of matching rows (empty or one row).
AlbumById(id) == {a \in albums : a.id = id}
UserById(id) == {u \in users : u.id = id}
ReviewById(id) == {r \in reviews : r.id = id}
ReviewByUserAlbum(u, a) == {r \in reviews : r.userId = u /\ r.albumId = a}
ArtistByExternalId(e) == {a \in artists : a.externalId = e}
AlbumByExternalId(e) == {a \in albums : a.externalId = e}

\* CREATE UNIQUE INDEX "Review_userId_albumId_key"
ReviewKeyFree_NoIndex(u, a) == TRUE
ReviewKeyFree(u, a) == ReviewByUserAlbum(u, a) = {}

\* The Review foreign keys on User and Album.
ReviewForeignKeysHold(u, a) == UserById(u) # {} /\ AlbumById(a) # {}

\* ------------------------------------------------ boundary (ValidationPipe)
\* CreateReviewDto: rating is @IsNotEmpty @IsInt @Min(1) @Max(5).
CreateReviewDto_valid(rating, comment) ==
  /\ rating # None
  /\ rating[1] >= 1
  /\ rating[1] <= 5

\* UpdateReviewDto: rating is @IsOptional @IsInt @Min(1) @Max(10).
UpdateReviewDto_valid(rating, comment) ==
  \/ rating = None
  \/ /\ rating[1] >= 1
     /\ rating[1] <= 10

\* ------------------------------------------------ ReviewsController
ReviewsController_create(p) ==
  /\ procs[p].op = "idle"
  /\ nextId.review + InFlight({"reviewCreate"}) <= MaxReviewId
  /\ \E u \in UserIdInputs, a \in AlbumIdInputs, r \in RatingInputs, c \in CommentInputs :
       LET req == [Idle EXCEPT !.op = "reviewCreate", !.userId = u, !.albumId = a,
                               !.rating = r, !.comment = c]
       IN procs' = [procs EXCEPT ![p] =
            IF CreateReviewDto_valid(r, c)
              THEN [req EXCEPT !.pc = "rc_findAlbum"]
              ELSE Finish(req, "BadRequest", 0)]
  /\ UNCHANGED <<storeVars, histVars, tokenVars>>

ReviewsController_update(p) ==
  /\ procs[p].op = "idle"
  /\ \E id \in ReviewIdInputs, u \in UserIdInputs, r \in RatingInputs, c \in CommentInputs :
       LET req == [Idle EXCEPT !.op = "reviewUpdate", !.reviewId = id, !.userId = u,
                               !.rating = r, !.comment = c]
       IN procs' = [procs EXCEPT ![p] =
            IF UpdateReviewDto_valid(r, c)
              THEN [req EXCEPT !.pc = "ru_find"]
              ELSE Finish(req, "BadRequest", 0)]
  /\ UNCHANGED <<storeVars, histVars, tokenVars>>

ReviewsController_remove(p) ==
  /\ procs[p].op = "idle"
  /\ \E id \in ReviewIdInputs, u \in UserIdInputs :
       procs' = [procs EXCEPT ![p] =
         [Idle EXCEPT !.op = "reviewRemove", !.reviewId = id, !.userId = u,
                      !.pc = "rm_find"]]
  /\ UNCHANGED <<storeVars, histVars, tokenVars>>

\* ------------------------------------------------ ReviewsService.create
\* album: findUnique where { id: createReviewDto.albumId }.
ExistingAlbum_Any(albumId) == albums
ExistingAlbum(albumId) == AlbumById(albumId)

ReviewsService_create_findAlbum(p) ==
  /\ procs[p].pc = "rc_findAlbum"
  /\ procs' = [procs EXCEPT ![p] =
       IF ExistingAlbum(procs[p].albumId) = {}
         THEN Finish(@, "NotFound", 0)
         ELSE [@ EXCEPT !.pc = "rc_findReview"]]
  /\ UNCHANGED <<storeVars, histVars, tokenVars>>

\* existingReview: findUnique by the compound key userId_albumId.
ExistingReview_OtherKey(userId, albumId) == ReviewById(albumId)
ExistingReview(userId, albumId) == ReviewByUserAlbum(userId, albumId)

ReviewsService_create_findReview(p) ==
  /\ procs[p].pc = "rc_findReview"
  /\ procs' = [procs EXCEPT ![p] =
       IF ExistingReview(procs[p].userId, procs[p].albumId) # {}
         THEN Finish(@, "Conflict", 0)
         ELSE [@ EXCEPT !.pc = "rc_insert"]]
  /\ UNCHANGED <<storeVars, histVars, tokenVars>>

\* data: { rating, comment, userId, albumId }; the id comes from the sequence.
NewReview_NoComment(id, pr) ==
  [id |-> id, userId |-> pr.userId, albumId |-> pr.albumId,
   rating |-> pr.rating[1], comment |-> None]

NewReview(id, pr) ==
  [id |-> id, userId |-> pr.userId, albumId |-> pr.albumId,
   rating |-> pr.rating[1], comment |-> pr.comment]

\* prisma.review.create; the handler has no catch, so a store error reaches
\* the caller as it is (P2002 unique violation, P2003 foreign key violation).
ReviewsService_create_insert(p) ==
  /\ procs[p].pc = "rc_insert"
  /\ LET pr == procs[p]
         id == nextId.review
     IN /\ nextId' = [nextId EXCEPT !.review = @ + 1]
        /\ IF ~ReviewKeyFree(pr.userId, pr.albumId)
             THEN /\ reviews' = reviews
                  /\ procs' = [procs EXCEPT ![p] = Finish(@, "P2002", 0)]
             ELSE IF ~ReviewForeignKeysHold(pr.userId, pr.albumId)
               THEN /\ reviews' = reviews
                    /\ procs' = [procs EXCEPT ![p] = Finish(@, "P2003", 0)]
               ELSE /\ reviews' = reviews \cup {NewReview(id, pr)}
                    /\ procs' = [procs EXCEPT ![p] = Finish(@, "ok", id)]
  /\ UNCHANGED <<users, artists, albums, histVars, tokenVars>>

\* ------------------------------------------------ ReviewsService.update
IsAuthor_Anyone(review, userId) == TRUE
IsAuthor(review, userId) == review.userId = userId

\* findUnique, then the existence and ownership checks (no await between).
OwnerCheck_OwnershipOnly(p, next) ==
  LET found == ReviewById(procs[p].reviewId)
  IN procs' = [procs EXCEPT ![p] =
       IF found # {} /\ ~IsAuthor(CHOOSE r \in found : TRUE, procs[p].userId)
         THEN Finish(@, "Forbidden", 0)
         ELSE [@ EXCEPT !.pc = next]]

OwnerCheck(p, next) ==
  LET found == ReviewById(procs[p].reviewId)
  IN procs' = [procs EXCEPT ![p] =
       IF found = {}
         THEN Finish(@, "NotFound", 0)
         ELSE IF ~IsAuthor(CHOOSE r \in found : TRUE, procs[p].userId)
           THEN Finish(@, "Forbidden", 0)
           ELSE [@ EXCEPT !.pc = next]]

ReviewsService_update_find(p) ==
  /\ procs[p].pc = "ru_find"
  /\ OwnerCheck(p, "ru_write")
  /\ UNCHANGED <<storeVars, histVars, tokenVars>>

\* data: updateReviewDto -- a field that is absent keeps the stored value.
ApplyPatch_Overwrite(row, rating, comment) ==
  [row EXCEPT !.rating = IF rating = None THEN @ ELSE rating[1],
              !.comment = comment]

ApplyPatch(row, rating, comment) ==
  [row EXCEPT !.rating = IF rating = None THEN @ ELSE rating[1],
              !.comment = IF comment = None THEN @ ELSE comment]

\* prisma.review.update where id: P2025 when the row is gone.
ReviewsService_update_write_Upsert(p) ==
  /\ procs[p].pc = "ru_write"
  /\ LET found == ReviewById(procs[p].reviewId)
         row == IF found = {}
                  THEN [id |-> procs[p].reviewId, userId |-> procs[p].userId,
                        albumId |-> 1, rating |-> 1, comment |-> None]
                  ELSE CHOOSE r \in found : TRUE
     IN /\ reviews' = (reviews \ {row}) \cup
             {ApplyPatch(row, procs[p].rating, procs[p].comment)}
        /\ procs' = [procs EXCEPT ![p] = Finish(@, "ok", row.id)]
  /\ UNCHANGED <<users, artists, albums, nextId, histVars, tokenVars>>

ReviewsService_update_write(p) ==
  /\ procs[p].pc = "ru_write"
  /\ LET found == ReviewById(procs[p].reviewId)
     IN IF found = {}
          THEN /\ reviews' = reviews
               /\ procs' = [procs EXCEPT ![p] = Finish(@, "P2025", 0)]
          ELSE LET row == CHOOSE r \in found : TRUE
               IN /\ reviews' = (reviews \ {row}) \cup
                       {ApplyPatch(row, procs[p].rating, procs[p].comment)}
                  /\ procs' = [procs EXCEPT ![p] = Finish(@, "ok", row.id)]
  /\ UNCHANGED <<users, artists, albums, nextId, histVars, tokenVars>>

\* ------------------------------------------------ ReviewsService.remove
ReviewsService_remove_find(p) ==
  /\ procs[p].pc = "rm_find"
  /\ OwnerCheck(p, "rm_write")
  /\ UNCHANGED <<storeVars, histVars, tokenVars>>

\* prisma.review.delete where id: P2025 when the row is gone.
ReviewsService_remove_write_KeepsRow(p) ==
  /\ procs[p].pc = "rm_write"
  /\ procs' = [procs EXCEPT ![p] =
       IF ReviewById(procs[p].reviewId) = {}
         THEN Finish(@, "P2025", 0)
         ELSE Finish(@, "ok", procs[p].reviewId)]
  /\ UNCHANGED <<storeVars, histVars, tokenVars>>

ReviewsService_remove_write(p) ==
  /\ procs[p].pc = "rm_write"
  /\ LET found == ReviewById(procs[p].reviewId)
     IN IF found = {}
          THEN /\ reviews' = reviews
               /\ procs' = [procs EXCEPT ![p] = Finish(@, "P2025", 0)]
          ELSE /\ reviews' = reviews \ found
               /\ procs' = [procs EXCEPT ![p] = Finish(@, "ok", procs[p].reviewId)]
  /\ UNCHANGED <<users, artists, albums, nextId, histVars, tokenVars>>

\* ------------------------------------------------ ReviewsService.findOne
ReviewsController_findOne(p) ==
  /\ procs[p].op = "idle"
  /\ \E id \in ReviewIdInputs :
       procs' = [procs EXCEPT ![p] =
         [Idle EXCEPT !.op = "reviewFindOne", !.reviewId = id, !.pc = "fo_find"]]
  /\ UNCHANGED <<storeVars, histVars, tokenVars>>

\* findUnique where { id }; the row found is the answer.
ReviewsService_findOne(p) ==
  /\ procs[p].pc = "fo_find"
  /\ LET found == ReviewById(procs[p].reviewId)
     IN procs' = [procs EXCEPT ![p] =
          IF found = {}
            THEN Finish(@, "NotFound", 0)
            ELSE LET row == CHOOSE r \in found : TRUE
                 IN Finish([@ EXCEPT !.userId = row.userId, !.albumId = row.albumId,
                                     !.rating = Some(row.rating),
                                     !.comment = row.comment], "ok", row.id)]
  /\ UNCHANGED <<storeVars, histVars, tokenVars>>

\* ------------------------------------------------ review lists
\* orderBy createdAt desc: rows get their createdAt at insertion, so the
\* order of the ids stands for the order of creation.
RECURSIVE NewestFirst(_)
NewestFirst(rows) ==
  IF rows = {} THEN <<>>
  ELSE LET newest == CHOOSE r \in rows : \A o \in rows : o.id <= r.id
       IN <<newest>> \o NewestFirst(rows \ {newest})

\* The `where` of a list operation: none, { albumId } or { userId }.
Matching(pr) ==
  IF pr.op = "reviewListByAlbum" THEN {r \in reviews : r.albumId = pr.albumId}
  ELSE IF pr.op = "reviewListByUser" THEN {r \in reviews : r.userId = pr.userId}
  ELSE reviews

\* findMany({ where, skip, take, orderBy }): the ids of the rows of the page.
FindMany_NoSkip(rows, skip, take) ==
  LET sorted == NewestFirst(rows)
      last == IF take < Len(sorted) THEN take ELSE Len(sorted)
  IN [i \in 1..last |-> sorted[i].id]

FindMany(rows, skip, take) ==
  LET sorted == NewestFirst(rows)
      last == IF skip + take < Len(sorted) THEN skip + take ELSE Len(sorted)
  IN [i \in 1..(IF last > skip THEN last - skip ELSE 0) |-> sorted[skip + i].id]

\* value || fallback on an optional integer query parameter: undefined and 0
\* are both falsy.
OrElse(value, fallback) ==
  IF value = None \/ value[1] = 0 THEN fallback ELSE value[1]

\* GET /reviews, /reviews/album/:albumId and /reviews/user/:userId with the
\* optional query parameters skip and take (ParseIntPipe, optional).
ReviewsController_findAll(p) ==
  /\ procs[p].op = "idle"
  /\ \E sk \in SkipQueryInputs, tk \in TakeQueryInputs :
       procs' = [procs EXCEPT ![p] =
         [Idle EXCEPT !.op = "reviewList", !.query = Some([skip |-> sk, take |-> tk]),
                      !.skip = OrElse(sk, 0), !.take = OrElse(tk, 10),
                      !.pc = "ls_query"]]
  /\ UNCHANGED <<storeVars, histVars, tokenVars>>

ReviewsController_findByAlbumId(p) ==
  /\ procs[p].op = "idle"
  /\ \E a \in AlbumIdInputs, sk \in SkipQueryInputs, tk \in TakeQueryInputs :
       procs' = [procs EXCEPT ![p] =
         [Idle EXCEPT !.op = "reviewListByAlbum", !.albumId = a,
                      !.query = Some([skip |-> sk, take |-> tk]),
                      !.skip = OrElse(sk, 0), !.take = OrElse(tk, 10),
                      !.pc = "la_findAlbum"]]
  /\ UNCHANGED <<storeVars, histVars, tokenVars>>

ReviewsController_findByUserId(p) ==
  /\ procs[p].op = "idle"
  /\ \E u \in UserIdInputs, sk \in SkipQueryInputs, tk \in TakeQueryInputs :
       procs' = [procs EXCEPT ![p] =
         [Idle EXCEPT !.op = "reviewListByUser", !.userId = u,
                      !.query = Some([skip |-> sk, take |-> tk]),
                      !.skip = OrElse(sk, 0), !.take = OrElse(tk, 10),
                      !.pc = "lu_findUser"]]
  /\ UNCHANGED <<storeVars, histVars, tokenVars>>

\* findAll(skip, take), findByAlbumId(albumId, skip, take) and
\* findByUserId(userId, skip, take) are called with the page window.
ReviewsService_findAll_call(p) ==
  /\ procs[p].op = "idle"
  /\ \E sk \in SkipInputs, tk \in TakeInputs :
       procs' = [procs EXCEPT ![p] =
         [Idle EXCEPT !.op = "reviewList", !.skip = sk, !.take = tk,
                      !.pc = "ls_query"]]
  /\ UNCHANGED <<storeVars, histVars, tokenVars>>

ReviewsService_findByAlbumId_call(p) ==
  /\ procs[p].op = "idle"
  /\ \E a \in AlbumIdInputs, sk \in SkipInputs, tk \in TakeInputs :
       procs' = [procs EXCEPT ![p] =
         [Idle EXCEPT !.op = "reviewListByAlbum", !.albumId = a, !.skip = sk,
                      !.take = tk, !.pc = "la_findAlbum"]]
  /\ UNCHANGED <<storeVars, histVars, tokenVars>>

ReviewsService_findByUserId_call(p) ==
  /\ procs[p].op = "idle"
  /\ \E u \in UserIdInputs, sk \in SkipInputs, tk \in TakeInputs :
       procs' = [procs EXCEPT ![p] =
         [Idle EXCEPT !.op = "reviewListByUser", !.userId = u, !.skip = sk,
                      !.take = tk, !.pc = "lu_findUser"]]
  /\ UNCHANGED <<storeVars, histVars, tokenVars>>

\* prisma.album.findUnique, NotFound when there is no such album.
ReviewsService_findByAlbumId_findAlbum_Unchecked(p) ==
  /\ procs[p].pc = "la_findAlbum"
  /\ procs' = [procs EXCEPT ![p] = [@ EXCEPT !.pc = "ls_query"]]
  /\ UNCHANGED <<storeVars, histVars, tokenVars>>

ReviewsService_findByAlbumId_findAlbum(p) ==
  /\ procs[p].pc = "la_findAlbum"
  /\ procs' = [procs EXCEPT ![p] =
       IF AlbumById(procs[p].albumId) = {}
         THEN Finish(@, "NotFound", 0)
         ELSE [@ EXCEPT !.pc = "ls_query"]]
  /\ UNCHANGED <<storeVars, histVars, tokenVars>>

\* prisma.user.findUnique, NotFound when there is no such user.
ReviewsService_findByUserId_findUser(p) ==
  /\ procs[p].pc = "lu_findUser"
  /\ procs' = [procs EXCEPT ![p] =
       IF UserById(procs[p].userId) = {}
         THEN Finish(@, "NotFound", 0)
         ELSE [@ EXCEPT !.pc = "ls_query"]]
  /\ UNCHANGED <<storeVars, histVars, tokenVars>>

\* Promise.all([findMany, count]): two store queries, answered in either
\* order; the handler returns { reviews, meta } when both have answered.
ListSettle(pr) ==
  IF pr.page # None /\ pr.total # None
    THEN Finish([pr EXCEPT !.hasMore = pr.skip + pr.take < pr.total[1]], "ok", 0)
    ELSE pr

ReviewsService_list_findMany(p) ==
  /\ procs[p].pc = "ls_query"
  /\ procs[p].page = None
  /\ procs' = [procs EXCEPT ![p] =
       ListSettle([@ EXCEPT !.page =
         Some(FindMany(Matching(procs[p]), procs[p].skip, procs[p].take))])]
  /\ UNCHANGED <<storeVars, histVars, tokenVars>>

ReviewsService_list_count(p) ==
  /\ procs[p].pc = "ls_query"
  /\ procs[p].total = None
  /\ procs' = [procs EXCEPT ![p] =
       ListSettle([@ EXCEPT !.total = Some(Cardinality(Matching(procs[p])))])]
  /\ UNCHANGED <<storeVars, histVars, tokenVars>>

\* ------------------------------------------------ AlbumsService.getAlbumRating
\* A JavaScript number that is a quotient of two small integers: the integer
\* part and the binary places after the point, MantissaBits significant bits
\* in all. NaN is what 0 / 0 gives.
Zero == [int |-> 0, frac |-> <<>>]
NaN == [int |-> -1, frac |-> <<>>]

RECURSIVE BitLength(_)
BitLength(i) == IF i = 0 THEN 0 ELSE 1 + BitLength(i \div 2)

\* Long division: the next n binary places of r / d (r < d) and the remainder.
RECURSIVE FractionBits(_, _, _)
FractionBits(r, d, n) ==
  IF n = 0 THEN [bits |-> <<>>, rem |-> r]
  ELSE IF n = 1
    THEN LET b == IF 2 * r >= d THEN 1 ELSE 0
         IN [bits |-> <<b>>, rem |-> 2 * r - b * d]
    ELSE LET front == FractionBits(r, d, n \div 2)
             back == FractionBits(front.rem, d, n - n \div 2)
         IN [bits |-> front.bits \o back.bits, rem |-> back.rem]

\* One unit in the last place more.
NextUp(x) ==
  LET n == Len(x.frac)
      zeros == {i \in 1..n : x.frac[i] = 0}
  IN IF zeros = {}
       THEN [int |-> x.int + 1, frac |-> [i \in 1..n |-> 0]]
       ELSE LET last == CHOOSE i \in zeros : \A j \in zeros : j <= i
            IN [int |-> x.int,
                frac |-> [i \in 1..n |-> IF i < last THEN x.frac[i]
                                          ELSE IF i = last THEN 1 ELSE 0]]

\* a / b for integers a >= b >= 0, rounded to the nearest number, ties to even.
Divide(a, b) ==
  IF b = 0 THEN NaN
  ELSE LET whole == a \div b
           places == FractionBits(a % b, b, MantissaBits - BitLength(whole))
           down == [int |-> whole, frac |-> places.bits]
           odd == IF places.bits = <<>> THEN whole % 2 = 1
                  ELSE places.bits[Len(places.bits)] = 1
       IN IF 2 * places.rem > b \/ (2 * places.rem = b /\ odd)
            THEN NextUp(down)
            ELSE down

\* findMany({ where: { albumId: id }, select: { rating: true } })
RatingsOf_AnyAlbum(id) == NewestFirst(reviews)
RatingsOf(id) == NewestFirst({r \in reviews : r.albumId = id})

\* reviews.reduce((sum, review) => sum + review.rating, 0)
RECURSIVE TotalRating(_)
TotalRating(rows) == IF rows = <<>> THEN 0 ELSE Head(rows).rating + TotalRating(Tail(rows))

AlbumRating_NoEmptyCase(rows) ==
  [averageRating |-> Divide(TotalRating(rows), Len(rows)), reviewCount |-> Len(rows)]

AlbumRating(rows) ==
  IF Len(rows) = 0
    THEN [averageRating |-> Zero, reviewCount |-> 0]
    ELSE [averageRating |-> Divide(TotalRating(rows), Len(rows)),
          reviewCount |-> Len(rows)]

AlbumsController_getAlbumRating(p) ==
  /\ procs[p].op = "idle"
  /\ \E id \in AlbumIdInputs :
       procs' = [procs EXCEPT ![p] =
         [Idle EXCEPT !.op = "albumRating", !.albumId = id, !.pc = "ar_findMany"]]
  /\ UNCHANGED <<storeVars, histVars, tokenVars>>

AlbumsService_getAlbumRating(p) ==
  /\ procs[p].pc = "ar_findMany"
  /\ LET answer == AlbumRating(RatingsOf(procs[p].albumId))
     IN procs' = [procs EXCEPT ![p] =
          Finish([@ EXCEPT !.averageRating = answer.averageRating,
                           !.reviewCount = answer.reviewCount], "ok", 0)]
  /\ UNCHANGED <<storeVars, histVars, tokenVars>>

\* ------------------------------------------------ UsersService.remove
UsersService_remove_start(p) ==
  /\ procs[p].op = "idle"
  /\ \E u \in UserIdInputs :
       procs' = [procs EXCEPT ![p] =
         [Idle EXCEPT !.op = "userRemove", !.userId = u, !.pc = "ur_find"]]
  /\ UNCHANGED <<storeVars, histVars, tokenVars>>

UsersService_remove_find(p) ==
  /\ procs[p].pc = "ur_find"
  /\ procs' = [procs EXCEPT ![p] =
       IF UserById(procs[p].userId) = {}
         THEN Finish(@, "NotFound", 0)
         ELSE [@ EXCEPT !.pc = "ur_delete"]]
  /\ UNCHANGED <<storeVars, histVars, tokenVars>>

\* prisma.user.delete; Review_userId_fkey is ON DELETE CASCADE.
UsersService_remove_delete_CascadeAlbums(p) ==
  /\ procs[p].pc = "ur_delete"
  /\ LET found == UserById(procs[p].userId)
         gone == {r \in reviews : r.userId = procs[p].userId}
     IN IF found = {}
          THEN /\ UNCHANGED <<users, reviews, albums>>
               /\ procs' = [procs EXCEPT ![p] = Finish(@, "P2025", 0)]
          ELSE /\ users' = users \ found
               /\ reviews' = reviews \ gone
               /\ albums' = {a \in albums : \A r \in gone : r.albumId # a.id}
               /\ procs' = [procs EXCEPT ![p] = Finish(@, "ok", procs[p].userId)]
  /\ UNCHANGED <<artists, nextId, histVars, tokenVars>>

UsersService_remove_delete_NoCascade(p) ==
  /\ procs[p].pc = "ur_delete"
  /\ LET found == UserById(procs[p].userId)
     IN IF found = {}
          THEN /\ UNCHANGED users
               /\ procs' = [procs EXCEPT ![p] = Finish(@, "P2025", 0)]
          ELSE /\ users' = users \ found
               /\ procs' = [procs EXCEPT ![p] = Finish(@, "ok", procs[p].userId)]
  /\ UNCHANGED <<reviews, artists, albums, nextId, histVars, tokenVars>>

UsersService_remove_delete(p) ==
  /\ procs[p].pc = "ur_delete"
  /\ LET found == UserById(procs[p].userId)
     IN IF found = {}
          THEN /\ UNCHANGED <<users, reviews>>
               /\ procs' = [procs EXCEPT ![p] = Finish(@, "P2025", 0)]
          ELSE /\ users' = users \ found
               /\ reviews' = {r \in reviews : r.userId # procs[p].userId}
               /\ procs' = [procs EXCEPT ![p] = Finish(@, "ok", procs[p].userId)]
  /\ UNCHANGED <<artists, albums, nextId, histVars, tokenVars>>

\* The response is delivered and the context is free for the next request.
Return(p) ==
  /\ procs[p].pc = "done"
  /\ procs' = [procs EXCEPT ![p] = Idle]
  /\ UNCHANGED <<storeVars, histVars, tokenVars>>

\* ------------------------------------------------ the music catalog
\* String.prototype.trim on a character sequence.
RECURSIVE TrimStart(_)
TrimStart(s) == IF s # <<>> /\ Head(s) = SP THEN TrimStart(Tail(s)) ELSE s
RECURSIVE TrimEnd(_)
TrimEnd(s) == IF s # <<>> /\ s[Len(s)] = SP THEN TrimEnd(SubSeq(s, 1, Len(s) - 1)) ELSE s
Trim(s) == TrimEnd(TrimStart(s))

\* ------------------------------------------------ MusicApiService.searchAlbums
\* The filter callback: albums and EPs stay, a single stays unless it has a
\* known track count below 2, every other type goes.
KeepItem_NoSingles(item) == item.album_type \in {"album", "ep"}

KeepItem(item) ==
  IF item.album_type = "album" THEN TRUE
  ELSE IF item.album_type = "ep" THEN TRUE
  ELSE IF item.album_type = "single"
    THEN IF item.total_tracks = None THEN TRUE
         ELSE item.total_tracks[1] >= 2
    ELSE FALSE

\* The callback rewrites the type of a single that it keeps.
Recategorise(item) ==
  IF item.album_type = "single" THEN [item EXCEPT !.album_type = "ep"] ELSE item

\* The record returned for an entry (the fields the core reads).
FormatItem(item) ==
  [externalId |-> item.id, albumType |-> item.album_type,
   totalTracks |-> item.total_tracks]

\* filter, slice(0, limit), map
SearchAlbumsResult(items, limit) ==
  LET filteredItems == SelectSeq(items, KeepItem)
      size == IF limit < Len(filteredItems) THEN limit ELSE Len(filteredItems)
  IN [i \in 1..size |-> FormatItem(Recategorise(filteredItems[i]))]

MusicApiService_searchAlbums_call(p) ==
  /\ procs[p].op = "idle"
  /\ \E l \in LimitInputs :
       procs' = [procs EXCEPT ![p] =
         [Idle EXCEPT !.op = "searchAlbums", !.limit = l, !.pc = "sa_token"]]
  /\ UNCHANGED <<storeVars, histVars, tokenVars>>

\* What a failed search means to the caller: searchAlbums rethrows the plain
\* Error, the fallback of getAlbumDetails throws its original NotFound.
SearchFailed(pr) ==
  Finish(pr, IF pr.op = "searchAlbums" THEN "Error" ELSE "NotFound", 0)

\* getAccessToken of searchAlbums as its caller sees it: a credential, or an
\* error. Whether the credential came from the cache or from an exchange makes
\* no difference to the search; the cache itself is followed in SpecToken.
MusicApiService_searchAlbums_token(p) ==
  /\ procs[p].pc = "sa_token"
  /\ \E granted \in BOOLEAN :
       procs' = [procs EXCEPT ![p] =
         IF granted THEN [@ EXCEPT !.pc = "sa_get"] ELSE SearchFailed(@)]
  /\ UNCHANGED <<storeVars, histVars, tokenVars>>

\* After the fallback search of getAlbumDetails: the exact match is returned;
\* a non-empty list without one leads to the lookup by the URL-encoded id;
\* otherwise the original NotFound is thrown.
ExactMatches(results, externalId) ==
  {i \in 1..Len(results) : results[i].externalId = externalId}

UrlEncode(e) ==
  IF e = <<>> THEN <<>>
  ELSE LET escaped == [i \in 1..Len(e) |-> IF e[i] = SP THEN <<"%", "2", "0">> ELSE <<e[i]>>]
           upTo[i \in 0..Len(e)] == IF i = 0 THEN <<>> ELSE upTo[i - 1] \o escaped[i]
       IN upTo[Len(e)]

FallbackAfterSearch(pr, results) ==
  IF Len(results) > 0
    THEN IF ExactMatches(results, pr.externalId) # {}
           THEN Finish([pr EXCEPT !.detail =
                  [externalId |-> pr.externalId, via |-> "search"]], "ok", 0)
           ELSE [pr EXCEPT !.altPath = UrlEncode(pr.externalId), !.pc = "gd_altToken"]
    ELSE Finish(pr, "NotFound", 0)

\* GET /search with limit 50, then the filter, the slice and the map.
MusicApiService_searchAlbums_get(p) ==
  /\ procs[p].pc = "sa_get"
  /\ \/ procs' = [procs EXCEPT ![p] = SearchFailed([@ EXCEPT !.requests = @ + 1])]
     \/ \E response \in SearchResponses :
          LET results == SearchAlbumsResult(response, procs[p].limit)
              answered == [procs[p] EXCEPT !.requests = @ + 1, !.items = response,
                                           !.found = Some(results)]
          IN procs' = [procs EXCEPT ![p] =
               IF procs[p].op = "searchAlbums"
                 THEN Finish(answered, "ok", 0)
                 ELSE FallbackAfterSearch(answered, results)]
  /\ UNCHANGED <<storeVars, histVars, tokenVars>>

\* ------------------------------------------------ MusicApiService.getAlbumDetails
MusicApiService_getAlbumDetails_call(p) ==
  /\ procs[p].op = "idle"
  /\ \E e \in AlbumExternalInputs :
       procs' = [procs EXCEPT ![p] =
         [Idle EXCEPT !.op = "albumDetails", !.externalId = e, !.pc = "gd_token"]]
  /\ UNCHANGED <<storeVars, histVars, tokenVars>>

\* getAccessToken: a failure is a plain Error, which the outer catch turns
\* into InternalServerError.
MusicApiService_getAlbumDetails_token(p) ==
  /\ procs[p].pc = "gd_token"
  /\ \E granted \in BOOLEAN :
       procs' = [procs EXCEPT ![p] =
         IF granted THEN [@ EXCEPT !.pc = "gd_direct"]
         ELSE Finish(@, "InternalServerError", 0)]
  /\ UNCHANGED <<storeVars, histVars, tokenVars>>

\* GET /albums/<trimmed id>: the album, 404 (the fallback starts with
\* searchAlbums(externalId, 5)), or another failure.
MusicApiService_getAlbumDetails_direct(p) ==
  /\ procs[p].pc = "gd_direct"
  /\ \E answer \in {"ok", "404", "failed"} :
       procs' = [procs EXCEPT ![p] =
         LET asked == [@ EXCEPT !.requests = @ + 1]
         IN IF answer = "ok"
              THEN Finish([asked EXCEPT !.detail =
                     [externalId |-> Trim(asked.externalId), via |-> "direct"]], "ok", 0)
            ELSE IF answer = "404"
              THEN [asked EXCEPT !.limit = 5, !.pc = "sa_token"]
            ELSE Finish(asked, "InternalServerError", 0)]
  /\ UNCHANGED <<storeVars, histVars, tokenVars>>

\* getAccessToken before the second lookup; its failure is swallowed by the
\* inner catch and the original NotFound is thrown.
MusicApiService_getAlbumDetails_altToken(p) ==
  /\ procs[p].pc = "gd_altToken"
  /\ \E granted \in BOOLEAN :
       procs' = [procs EXCEPT ![p] =
         IF granted THEN [@ EXCEPT !.pc = "gd_alt"] ELSE Finish(@, "NotFound", 0)]
  /\ UNCHANGED <<storeVars, histVars, tokenVars>>

\* GET /albums/<encodeURIComponent(externalId)>: the album, or the original
\* NotFound.
MusicApiService_getAlbumDetails_alt(p) ==
  /\ procs[p].pc = "gd_alt"
  /\ \E answered \in BOOLEAN :
       procs' = [procs EXCEPT ![p] =
         LET asked == [@ EXCEPT !.requests = @ + 1]
         IN IF answered
              THEN Finish([asked EXCEPT !.detail =
                     [externalId |-> asked.externalId, via |-> "alt"]], "ok", 0)
              ELSE Finish(asked, "NotFound", 0)]
  /\ UNCHANGED <<storeVars, histVars, tokenVars>>

Outcome(status, e, a) == [status |-> status, externalId |-> e, artistExternalId |-> a]

\* getAlbumDetails: the lookup is made with the trimmed id and the record
\* carries the catalog's own id; an upstream failure is possible on any call.
MusicApiService_getAlbumDetails(e) ==
  LET clean == Trim(e)
  IN {Outcome("CatalogUnavailable", <<>>, <<>>)} \cup
     (IF clean \in CatalogAlbums
        THEN {Outcome("ok", clean, CatalogArtistOf(clean))}
        ELSE {Outcome("CatalogNotFound", <<>>, <<>>)})

\* getArtistDetails: every upstream error becomes a plain Error.
MusicApiService_getArtistDetails(e) ==
  {Outcome("CatalogUnavailable", <<>>, <<>>)} \cup
  (IF e \in CatalogArtists THEN {Outcome("ok", e, <<>>)} ELSE {})

\* ------------------------------------------------ store constraints
\* CREATE UNIQUE INDEX "Artist_externalId_key" / "Album_externalId_key"
ArtistKeyFree_NoIndex(e) == TRUE
ArtistKeyFree(e) == ArtistByExternalId(e) = {}
AlbumKeyFree(e) == AlbumByExternalId(e) = {}

\* catch (error) { if (error.code === 'P2002') throw new ConflictException }
ArtistsService_create_catch_Rethrow(code) == code
ArtistsService_create_catch(code) == IF code = "P2002" THEN "Conflict" ELSE code
AlbumsService_create_catch(code) == IF code = "P2002" THEN "Conflict" ELSE code

\* ------------------------------------------------ controllers
ArtistsController_findByExternalId(p) ==
  /\ procs[p].op = "idle"
  /\ nextId.artist + InFlight({"resolveArtist", "resolveAlbum"}) <= MaxEntityId
  /\ \E e \in ArtistExternalInputs :
       procs' = [procs EXCEPT ![p] =
         [Idle EXCEPT !.op = "resolveArtist", !.externalId = e, !.pc = "ra_find",
                      !.after = \E h \in artistReturned : h[1] = e]]
  /\ UNCHANGED <<storeVars, histVars, tokenVars>>

AlbumsController_findByExternalId(p) ==
  /\ procs[p].op = "idle"
  /\ nextId.artist + InFlight({"resolveArtist", "resolveAlbum"}) <= MaxEntityId
  /\ nextId.album + InFlight({"resolveAlbum"}) <= MaxEntityId
  /\ \E e \in AlbumExternalInputs :
       procs' = [procs EXCEPT ![p] =
         [Idle EXCEPT !.op = "resolveAlbum", !.externalId = e, !.pc = "al_find",
                      !.after = \E h \in albumReturned : h[1] = e]]
  /\ UNCHANGED <<storeVars, histVars, tokenVars>>

\* ------------------------------------------------ ArtistsService
\* The artist is handed back to whoever asked for it: the request itself
\* (ret = "done") or the album flow, which continues at `ret`.
ArtistReturn(proc, row) ==
  IF proc.ret = "done"
    THEN Finish(proc, "ok", row.id)
    ELSE [proc EXCEPT !.pc = proc.ret,
                      !.artistId = IF proc.ret = "alc_insert" THEN row.id ELSE @]

ArtistHistory(proc) ==
  IF proc.op = "resolveArtist" /\ proc.pc = "done" /\ proc.result = "ok"
    THEN artistReturned \cup {<<proc.externalId, proc.resId>>}
    ELSE artistReturned

\* The external id the artist lookup is made with.
ArtistKey(proc) == IF proc.op = "resolveArtist" THEN proc.externalId ELSE proc.artistExternalId

\* existingArtist: findUnique where { externalId }.
ExistingArtist_ByName(e) == {a \in artists : a.externalId = <<"name">>}
ExistingArtist(e) == ArtistByExternalId(e)

ArtistsService_getArtistDetailsByExternalId_find(p) ==
  /\ procs[p].pc = "ra_find"
  /\ LET found == ExistingArtist(ArtistKey(procs[p]))
         after == IF found = {}
                    THEN [procs[p] EXCEPT !.pc = "ra_catalog"]
                    ELSE ArtistReturn([procs[p] EXCEPT !.hit = (procs[p].op = "resolveArtist")],
                                      CHOOSE a \in found : TRUE)
     IN /\ procs' = [procs EXCEPT ![p] = after]
        /\ artistReturned' = ArtistHistory(after)
  /\ UNCHANGED <<storeVars, albumReturned, tokenVars>>

\* musicApiService.getArtistDetails, awaited by getArtistDetailsByExternalId
\* (pc ra_catalog) and by AlbumsService.create (pc alc_catalog).
ArtistsService_fetchDetails(p) ==
  /\ procs[p].pc \in {"ra_catalog", "alc_catalog"}
  /\ \E out \in MusicApiService_getArtistDetails(ArtistKey(procs[p])) :
       procs' = [procs EXCEPT ![p] =
         IF out.status = "ok"
           THEN [@ EXCEPT !.calls = @ + 1, !.pc = "ac_find",
                          !.artistExternalId = out.externalId,
                          !.ret = IF procs[p].pc = "alc_catalog" THEN "alc_insert" ELSE @]
           ELSE Finish([@ EXCEPT !.calls = @ + 1], out.status, 0)]
  /\ UNCHANGED <<storeVars, histVars, tokenVars>>

ArtistsService_create_find(p) ==
  /\ procs[p].pc = "ac_find"
  /\ LET found == ArtistByExternalId(procs[p].artistExternalId)
         after == IF found = {}
                    THEN [procs[p] EXCEPT !.pc = "ac_insert"]
                    ELSE ArtistReturn(procs[p], CHOOSE a \in found : TRUE)
     IN /\ procs' = [procs EXCEPT ![p] = after]
        /\ artistReturned' = ArtistHistory(after)
  /\ UNCHANGED <<storeVars, albumReturned, tokenVars>>

ArtistsService_create_insert(p) ==
  /\ procs[p].pc = "ac_insert"
  /\ LET pr == procs[p]
         row == ArtistRow(nextId.artist, pr.artistExternalId)
         after == IF ArtistKeyFree(pr.artistExternalId)
                    THEN ArtistReturn([pr EXCEPT !.artistInsert = "ok"], row)
                    ELSE Finish([pr EXCEPT !.artistInsert = "dup"],
                                ArtistsService_create_catch("P2002"), 0)
     IN /\ nextId' = [nextId EXCEPT !.artist = @ + 1]
        /\ artists' = IF ArtistKeyFree(pr.artistExternalId) THEN artists \cup {row} ELSE artists
        /\ procs' = [procs EXCEPT ![p] = after]
        /\ artistReturned' = ArtistHistory(after)
  /\ UNCHANGED <<users, albums, reviews, albumReturned, tokenVars>>

\* ------------------------------------------------ AlbumsService
AlbumHistory(proc) ==
  IF proc.op = "resolveAlbum" /\ proc.pc = "done" /\ proc.result = "ok"
    THEN albumReturned \cup {<<proc.externalId, proc.resId>>}
    ELSE albumReturned

AlbumsService_getAlbumDetailsByExternalId_find(p) ==
  /\ procs[p].pc = "al_find"
  /\ LET found == AlbumByExternalId(procs[p].externalId)
         after == IF found = {}
                    THEN [procs[p] EXCEPT !.pc = "al_catalog"]
                    ELSE Finish([procs[p] EXCEPT !.hit = TRUE], "ok",
                                (CHOOSE a \in found : TRUE).id)
     IN /\ procs' = [procs EXCEPT ![p] = after]
        /\ albumReturned' = AlbumHistory(after)
  /\ UNCHANGED <<storeVars, artistReturned, tokenVars>>

\* musicApiService.getAlbumDetails, then on to resolving the owning artist.
AlbumsService_fetchDetails(p) ==
  /\ procs[p].pc = "al_catalog"
  /\ \E out \in MusicApiService_getAlbumDetails(procs[p].externalId) :
       procs' = [procs EXCEPT ![p] =
         IF out.status = "ok"
           THEN [@ EXCEPT !.calls = @ + 1, !.pc = "ra_find", !.ret = "alc_find",
                          !.catalogId = out.externalId,
                          !.artistExternalId = out.artistExternalId]
           ELSE Finish([@ EXCEPT !.calls = @ + 1], out.status, 0)]
  /\ UNCHANGED <<storeVars, histVars, tokenVars>>

AlbumsService_create_find(p) ==
  /\ procs[p].pc = "alc_find"
  /\ LET found == AlbumByExternalId(procs[p].catalogId)
         after == IF found = {}
                    THEN [procs[p] EXCEPT !.pc = "alc_findArtist"]
                    ELSE Finish(procs[p], "ok", (CHOOSE a \in found : TRUE).id)
     IN /\ procs' = [procs EXCEPT ![p] = after]
        /\ albumReturned' = AlbumHistory(after)
  /\ UNCHANGED <<storeVars, artistReturned, tokenVars>>

AlbumsService_create_findArtist(p) ==
  /\ procs[p].pc = "alc_findArtist"
  /\ LET found == ArtistByExternalId(procs[p].artistExternalId)
     IN procs' = [procs EXCEPT ![p] =
          IF found = {}
            THEN [@ EXCEPT !.pc = "alc_catalog"]
            ELSE [@ EXCEPT !.pc = "alc_insert", !.artistId = (CHOOSE a \in found : TRUE).id]]
  /\ UNCHANGED <<storeVars, histVars, tokenVars>>

\* prisma.album.create with artist: { connect: { id } }.
AlbumsService_create_insert_ThenFail(p) ==
  /\ procs[p].pc = "alc_insert"
  /\ LET pr == procs[p]
         row == AlbumRow(nextId.album, pr.catalogId, pr.artistId)
         after == Finish([pr EXCEPT !.albumInsert = "dup"], "Conflict", 0)
     IN /\ nextId' = [nextId EXCEPT !.album = @ + 1]
        /\ albums' = IF AlbumKeyFree(pr.catalogId) THEN albums \cup {row} ELSE albums
        /\ procs' = [procs EXCEPT ![p] = after]
        /\ albumReturned' = AlbumHistory(after)
  /\ UNCHANGED <<users, artists, reviews, artistReturned, tokenVars>>

AlbumsService_create_insert(p) ==
  /\ procs[p].pc = "alc_insert"
  /\ LET pr == procs[p]
         row == AlbumRow(nextId.album, pr.catalogId, pr.artistId)
         connected == \E a \in artists : a.id = pr.artistId
         ok == AlbumKeyFree(pr.catalogId) /\ connected
         after == IF ok
                    THEN Finish([pr EXCEPT !.albumInsert = "ok"], "ok", row.id)
                    ELSE IF ~AlbumKeyFree(pr.catalogId)
                      THEN Finish([pr EXCEPT !.albumInsert = "dup"],
                                  AlbumsService_create_catch("P2002"), 0)
                      ELSE Finish(pr, AlbumsService_create_catch("P2025"), 0)
     IN /\ nextId' = [nextId EXCEPT !.album = @ + 1]
        /\ albums' = IF ok THEN albums \cup {row} ELSE albums
        /\ procs' = [procs EXCEPT ![p] = after]
        /\ albumReturned' = AlbumHistory(after)
  /\ UNCHANGED <<users, artists, reviews, artistReturned, tokenVars>>

\* ------------------------------------------------ ArtistsService.getArtistAlbums
\* GET /artists/:id/albums of the catalog, with include_groups album,single:
\* the items of the artist, each with its id and album_type.
ArtistAlbumItems(e) ==
  IF e = <<"r">> THEN <<[id |-> <<"a">>, album_type |-> "album"]>>
  ELSE IF e = <<"s">> THEN <<[id |-> <<"b">>, album_type |-> "single"]>>
  ELSE <<>>

\* response.data.items.map(album => ({ externalId: album.id, ... }))
FormatArtistAlbum(item) == [externalId |-> item.id, albumType |-> item.album_type]

\* musicApiService.getArtistAlbums: the records of the artist's albums, or
\* an upstream failure.
MusicApiService_getArtistAlbums(e) ==
  {[status |-> "CatalogUnavailable", items |-> <<>>]} \cup
  (IF e \in CatalogArtists
     THEN {[status |-> "ok",
            items |-> [i \in 1..Len(ArtistAlbumItems(e)) |->
                         FormatArtistAlbum(ArtistAlbumItems(e)[i])]]}
     ELSE {})

ArtistsController_getArtistAlbums(p) ==
  /\ procs[p].op = "idle"
  /\ \E id \in ArtistIdInputs :
       procs' = [procs EXCEPT ![p] =
         [Idle EXCEPT !.op = "artistAlbums", !.artistId = id, !.pc = "ga_find"]]
  /\ UNCHANGED <<storeVars, histVars, tokenVars>>

\* artist: findUnique where { id: artistId }, NotFound when there is none.
ArtistsService_getArtistAlbums_find(p) ==
  /\ procs[p].pc = "ga_find"
  /\ LET found == {a \in artists : a.id = procs[p].artistId}
     IN procs' = [procs EXCEPT ![p] =
          IF found = {}
            THEN Finish(@, "NotFound", 0)
            ELSE [@ EXCEPT !.artistExternalId = (CHOOSE a \in found : TRUE).externalId,
                           !.pc = "ga_findMany"]]
  /\ UNCHANGED <<storeVars, histVars, tokenVars>>

\* albumsInDb: findMany where { artistId }.
AlbumsInDb(artistId) == {a \in albums : a.artistId = artistId}

\* The local albums are the answer when there are any.
ArtistsService_getArtistAlbums_findMany(p) ==
  /\ procs[p].pc = "ga_findMany"
  /\ LET albumsInDb == AlbumsInDb(procs[p].artistId)
     IN procs' = [procs EXCEPT ![p] =
          IF albumsInDb # {}
            THEN Finish([@ EXCEPT !.rows = albumsInDb], "ok", 0)
            ELSE [@ EXCEPT !.pc = "ga_catalog"]]
  /\ UNCHANGED <<storeVars, histVars, tokenVars>>

\* externalAlbums is returned as the catalog gave it; nothing is created.
ArtistsService_getArtistAlbums_catalog_Persists(p) ==
  /\ procs[p].pc = "ga_catalog"
  /\ \E out \in MusicApiService_getArtistAlbums(procs[p].artistExternalId) :
       /\ procs' = [procs EXCEPT ![p] =
            Finish([@ EXCEPT !.calls = @ + 1, !.items = out.items], out.status, 0)]
       /\ albums' = albums \cup
            {AlbumRow(nextId.album + i - 1, out.items[i].externalId, procs[p].artistId) :
               i \in 1..Len(out.items)}
  /\ UNCHANGED <<users, artists, reviews, nextId, histVars, tokenVars>>

ArtistsService_getArtistAlbums_catalog(p) ==
  /\ procs[p].pc = "ga_catalog"
  /\ \E out \in MusicApiService_getArtistAlbums(procs[p].artistExternalId) :
       procs' = [procs EXCEPT ![p] =
         Finish([@ EXCEPT !.calls = @ + 1, !.items = out.items], out.status, 0)]
  /\ UNCHANGED <<storeVars, histVars, tokenVars>>

\* ------------------------------------------------ MusicApiService.getAccessToken
\* A new service object has neither token nor expiry.
InitTokenCache(credentials) ==
  /\ accessToken = None
  /\ tokenExpiry = None
  /\ now = 0
  /\ configured = credentials
  /\ responses = {}

\* this.accessToken && this.tokenExpiry > new Date()
CacheValid_NoExpiry == accessToken # None
CacheValid == accessToken # None /\ tokenExpiry # None /\ tokenExpiry[1] > now

\* Time passes between any two steps.
Tick ==
  /\ now < MaxTime
  /\ now' = now + 1
  /\ UNCHANGED <<storeVars, procs, histVars, accessToken, tokenExpiry, configured,
                 responses>>

\* getArtistDetails calls getAccessToken, which runs up to its first await:
\* the cached token is the answer while it is valid; otherwise the
\* credentials are read and the token request is sent.
MusicApiService_getArtistDetails_call(p) ==
  /\ procs[p].op = "idle"
  /\ Cardinality(responses) + InFlight({"artistDetails"}) < MaxTokens
  /\ \E e \in ArtistExternalInputs :
       LET req == [Idle EXCEPT !.op = "artistDetails", !.externalId = e]
       IN procs' = [procs EXCEPT ![p] =
            IF CacheValid
              THEN [req EXCEPT !.token = accessToken, !.pc = "ad_get"]
              ELSE IF ~configured
                THEN Finish([req EXCEPT !.exchanged = TRUE], "NotConfigured", 0)
                ELSE [req EXCEPT !.exchanged = TRUE, !.pc = "tk_post"]]
  /\ UNCHANGED <<storeVars, histVars, tokenVars>>

\* The token and its expiry are assigned together, with no await between.
StoreToken_KeepsLaterExpiry(token, expiry) ==
  /\ accessToken' = Some(token)
  /\ tokenExpiry' = IF tokenExpiry # None /\ tokenExpiry[1] > expiry
                      THEN tokenExpiry ELSE Some(expiry)

StoreToken(token, expiry) ==
  /\ accessToken' = Some(token)
  /\ tokenExpiry' = Some(expiry)

\* The token endpoint answers: a new token with its expires_in, or an error,
\* which getAccessToken throws on.
MusicApiService_getAccessToken_response(p) ==
  /\ procs[p].pc = "tk_post"
  /\ \/ \E d \in ExpiresInInputs :
          LET token == Cardinality(responses) + 1
          IN /\ StoreToken(token, now + d)
             /\ responses' = responses \cup
                  {[access_token |-> token, expires_in |-> d, at |-> now]}
             /\ procs' = [procs EXCEPT ![p] =
                  [@ EXCEPT !.token = Some(token), !.pc = "ad_get"]]
     \/ /\ procs' = [procs EXCEPT ![p] = Finish(@, "TokenFailed", 0)]
        /\ UNCHANGED <<accessToken, tokenExpiry, responses>>
  /\ UNCHANGED <<storeVars, histVars, now, configured>>

\* GET /artists/{id} with the token: the record or an upstream error.
MusicApiService_getArtistDetails_get(p) ==
  /\ procs[p].pc = "ad_get"
  /\ \E out \in MusicApiService_getArtistDetails(procs[p].externalId) :
       procs' = [procs EXCEPT ![p] =
         Finish([@ EXCEPT !.catalogId = out.externalId], out.status, 0)]
  /\ UNCHANGED <<storeVars, histVars, tokenVars>>

InitToken ==
  /\ users = {UserRow(1), UserRow(2)}
  /\ artists = {}
  /\ albums = {}
  /\ reviews = {}
  /\ nextId = [user |-> 3, artist |-> 1, album |-> 1, review |-> 1]
  /\ procs = [p \in Procs |-> Idle]
  /\ artistReturned = {}
  /\ albumReturned = {}
  /\ \E credentials \in BOOLEAN : InitTokenCache(credentials)

NextToken ==
  \/ Tick
  \/ \E p \in Procs :
       \/ MusicApiService_getArtistDetails_call(p)
       \/ MusicApiService_getAccessToken_response(p)
       \/ MusicApiService_getArtistDetails_get(p)
       \/ Return(p)

SpecToken == InitToken /\ [][NextToken]_vars

\* ------------------------------------------------ review manager system
InitReviews ==
  /\ users = {UserRow(1), UserRow(2)}
  /\ artists = {ArtistRow(1, <<"r">>)}
  /\ albums = {AlbumRow(1, <<"a">>, 1)}
  /\ reviews = {}
  /\ nextId = [user |-> 3, artist |-> 2, album |-> 2, review |-> 1]
  /\ procs = [p \in Procs |-> Idle]
  /\ artistReturned = {}
  /\ albumReturned = {}
  /\ InitTokenCache(TRUE)

NextReviews ==
  \E p \in Procs :
    \/ ReviewsController_create(p)
    \/ ReviewsController_update(p)
    \/ ReviewsController_remove(p)
    \/ ReviewsService_create_findAlbum(p)
    \/ ReviewsService_create_findReview(p)
    \/ ReviewsService_create_insert(p)
    \/ ReviewsService_update_find(p)
    \/ ReviewsService_update_write(p)
    \/ ReviewsService_remove_find(p)
    \/ ReviewsService_remove_write(p)
    \/ ReviewsController_findOne(p)
    \/ ReviewsService_findOne(p)
    \/ Return(p)

SpecReviews == InitReviews /\ [][NextReviews]_vars

\* ------------------------------------------------ entity resolver system
\* Users are removed while reviews are written and albums are resolved.
NextCascade ==
  \E p \in Procs :
    \/ ReviewsController_create(p)
    \/ ReviewsService_create_findAlbum(p)
    \/ ReviewsService_create_findReview(p)
    \/ ReviewsService_create_insert(p)
    \/ UsersService_remove_start(p)
    \/ UsersService_remove_find(p)
    \/ UsersService_remove_delete(p)
    \/ AlbumsController_findByExternalId(p)
    \/ AlbumsService_getAlbumDetailsByExternalId_find(p)
    \/ AlbumsService_fetchDetails(p)
    \/ AlbumsService_create_find(p)
    \/ AlbumsService_create_findArtist(p)
    \/ ArtistsService_getArtistDetailsByExternalId_find(p)
    \/ ArtistsService_fetchDetails(p)
    \/ ArtistsService_create_find(p)
    \/ ArtistsService_create_insert(p)
    \/ AlbumsService_create_insert(p)
    \/ Return(p)

SpecCascade == InitReviews /\ [][NextCascade]_vars

\* The queries start from a store that creates have filled: album 1 and
\* possibly album 2, MaxUsers users, and up to MaxRows reviews with ids in
\* the order of their keys. Requests are served one at a time, so no write
\* is concurrent with a list.
ReviewKeys(withSecond) ==
  {k \in (1..MaxUsers) \X AlbumIdInputs : k[2] = 1 \/ withSecond}

RECURSIVE KeyOrder(_)
KeyOrder(keys) ==
  IF keys = {} THEN <<>>
  ELSE LET first == CHOOSE k \in keys :
             \A o \in keys : k[1] < o[1] \/ (k[1] = o[1] /\ k[2] <= o[2])
       IN <<first>> \o KeyOrder(keys \ {first})

InitQueries ==
  /\ users = {UserRow(u) : u \in 1..MaxUsers}
  /\ artists = {ArtistRow(1, <<"r">>), ArtistRow(2, <<"s">>)}
  /\ \E withSecond \in BOOLEAN :
       /\ albums = {AlbumRow(1, <<"a">>, 1)} \cup
                   (IF withSecond THEN {AlbumRow(2, <<"b">>, 2)} ELSE {})
       /\ \E keys \in SUBSET ReviewKeys(withSecond) :
            /\ Cardinality(keys) <= MaxRows
            /\ \E rate \in [keys -> StoredRatings] :
                 LET order == KeyOrder(keys)
                 IN /\ reviews = {[id |-> i, userId |-> order[i][1],
                                   albumId |-> order[i][2],
                                   rating |-> rate[order[i]], comment |-> None] :
                                   i \in 1..Len(order)}
                    /\ nextId = [user |-> MaxUsers + 1, artist |-> 3,
                                 album |-> IF withSecond THEN 3 ELSE 2,
                                 review |-> Len(order) + 1]
  /\ procs = [p \in Procs |-> Idle]
  /\ artistReturned = {}
  /\ albumReturned = {}
  /\ InitTokenCache(TRUE)

NextQueries ==
  \E p \in {1} :
    \/ ReviewsController_findAll(p)
    \/ ReviewsController_findByAlbumId(p)
    \/ ReviewsController_findByUserId(p)
    \/ ReviewsService_findAll_call(p)
    \/ ReviewsService_findByAlbumId_call(p)
    \/ ReviewsService_findByUserId_call(p)
    \/ ReviewsService_findByAlbumId_findAlbum(p)
    \/ ReviewsService_findByUserId_findUser(p)
    \/ ReviewsService_list_findMany(p)
    \/ ReviewsService_list_count(p)
    \/ AlbumsController_getAlbumRating(p)
    \/ AlbumsService_getAlbumRating(p)
    \/ ReviewsController_remove(p)
    \/ ReviewsService_remove_find(p)
    \/ ReviewsService_remove_write(p)
    \/ UsersService_remove_start(p)
    \/ UsersService_remove_find(p)
    \/ UsersService_remove_delete(p)
    \/ Return(p)

SpecQueries == InitQueries /\ [][NextQueries]_vars

\* The catalog client on its own: its calls neither read nor write the store.
NextCatalog ==
  \E p \in {1} :
    \/ MusicApiService_searchAlbums_call(p)
    \/ MusicApiService_searchAlbums_token(p)
    \/ MusicApiService_searchAlbums_get(p)
    \/ MusicApiService_getAlbumDetails_call(p)
    \/ MusicApiService_getAlbumDetails_token(p)
    \/ MusicApiService_getAlbumDetails_direct(p)
    \/ MusicApiService_getAlbumDetails_altToken(p)
    \/ MusicApiService_getAlbumDetails_alt(p)
    \/ Return(p)

SpecCatalog == InitReviews /\ [][NextCatalog]_vars

InitResolver ==
  /\ users = {UserRow(1), UserRow(2)}
  /\ artists = {}
  /\ albums = {}
  /\ reviews = {}
  /\ nextId = [user |-> 3, artist |-> 1, album |-> 1, review |-> 1]
  /\ procs = [p \in Procs |-> Idle]
  /\ artistReturned = {}
  /\ albumReturned = {}
  /\ InitTokenCache(TRUE)

NextResolver ==
  \E p \in Procs :
    \/ ArtistsController_findByExternalId(p)
    \/ AlbumsController_findByExternalId(p)
    \/ ArtistsService_getArtistDetailsByExternalId_find(p)
    \/ ArtistsService_fetchDetails(p)
    \/ ArtistsService_create_find(p)
    \/ ArtistsService_create_insert(p)
    \/ AlbumsService_getAlbumDetailsByExternalId_find(p)
    \/ AlbumsService_fetchDetails(p)
    \/ AlbumsService_create_find(p)
    \/ AlbumsService_create_findArtist(p)
    \/ AlbumsService_create_insert(p)
    \/ Return(p)

SpecResolver == InitResolver /\ [][NextResolver]_vars

\* The resolvers together with the album list of an artist.
NextArtistAlbums ==
  \/ NextResolver
  \/ \E p \in Procs :
       \/ ArtistsController_getArtistAlbums(p)
       \/ ArtistsService_getArtistAlbums_find(p)
       \/ ArtistsService_getArtistAlbums_findMany(p)
       \/ ArtistsService_getArtistAlbums_catalog(p)

SpecArtistAlbums == InitResolver /\ [][NextArtistAlbums]_vars

\* =================================================================== claims

\* C1: in every reachable state, after any interleaving of review create,
\* update and remove requests (two concurrent creates by one user for one
\* album that both pass the existence check included), the store holds at
\* most one Review row per (userId, albumId) pair.
C1_OneReviewPerUserAlbum ==
  \A r1, r2 \in reviews :
    (r1.userId = r2.userId /\ r1.albumId = r2.albumId) => r1 = r2

\* Two concurrent creates for one pair both reached the insert: one row went
\* in, the other insert was refused by the unique index.
C1_Witness ==
  \E p, q \in Procs :
    /\ p # q
    /\ procs[p].op = "reviewCreate" /\ procs[q].op = "reviewCreate"
    /\ procs[p].userId = procs[q].userId /\ procs[p].albumId = procs[q].albumId
    /\ procs[p].result = "ok" /\ procs[q].result = "P2002"
    /\ ReviewByUserAlbum(procs[p].userId, procs[p].albumId) # {}

\* C2: every stored Review has an integer rating with 1 <= rating <= 5, and a
\* create or update request carrying a rating outside [1,5] is rejected at the
\* boundary (so it never gets past the validators).
C2_RatingWithinOneToFive ==
  /\ \A r \in reviews : r.rating >= 1 /\ r.rating <= 5
  /\ \A p \in Procs :
       (/\ procs[p].op \in {"reviewCreate", "reviewUpdate"}
        /\ procs[p].rating # None
        /\ ~(procs[p].rating[1] >= 1 /\ procs[p].rating[1] <= 5))
       => procs[p].result = "BadRequest"

\* C3: an update or remove of an existing review by an actor who is not its
\* author fails with Forbidden and leaves every row of the store unchanged.
C3_Step(p) ==
  LET found == ReviewById(procs[p].reviewId)
  IN (/\ procs[p].pc \in {"ru_find", "rm_find"}
      /\ procs'[p] # procs[p]
      /\ found # {}
      /\ \A r \in found : r.userId # procs[p].userId)
     => (/\ procs'[p].pc = "done"
         /\ procs'[p].result = "Forbidden"
         /\ storeVars' = storeVars)

C3_NonAuthorForbidden == [][\A p \in Procs : C3_Step(p)]_vars

\* An update and a remove were both refused while the review they aimed at,
\* owned by someone else, is still in the store.
C3_Witness ==
  \E p, q \in Procs :
    /\ procs[p].op = "reviewUpdate" /\ procs[p].result = "Forbidden"
    /\ procs[q].op = "reviewRemove" /\ procs[q].result = "Forbidden"
    /\ \E r \in ReviewById(procs[p].reviewId) : r.userId # procs[p].userId
    /\ \E r \in ReviewById(procs[q].reviewId) : r.userId # procs[q].userId

\* C4: a create for a pair (u, a) that has no row, on an existing album,
\* passes the duplicate check and its insert adds exactly one row, the
\* requested one; a create that finds a row for (u, a) fails with Conflict
\* and neither inserts nor modifies anything.
C4_Step(p) ==
  LET pr == procs[p]
      existing == ReviewByUserAlbum(pr.userId, pr.albumId)
  IN /\ (pr.pc = "rc_findReview" /\ procs'[p] # pr /\ existing # {})
          => (/\ procs'[p].pc = "done"
              /\ procs'[p].result = "Conflict"
              /\ storeVars' = storeVars)
     /\ (pr.pc = "rc_findReview" /\ procs'[p] # pr /\ existing = {})
          => (procs'[p].pc = "rc_insert" /\ storeVars' = storeVars)
     /\ (/\ pr.pc = "rc_insert" /\ procs'[p] # pr /\ existing = {}
         /\ ReviewForeignKeysHold(pr.userId, pr.albumId))
          => (/\ procs'[p].result = "ok"
              /\ reviews' = reviews \cup {r \in reviews' : r.id = procs'[p].resId}
              /\ ReviewById(procs'[p].resId) = {}
              /\ \E r \in reviews' \ reviews :
                   /\ r.userId = pr.userId /\ r.albumId = pr.albumId
                   /\ r.rating = pr.rating[1] /\ r.comment = pr.comment)

C4_SecondCreateConflicts == [][\A p \in Procs : C4_Step(p)]_vars

\* The first create went in and a second one for the same pair got Conflict.
C4_Witness ==
  \E p \in Procs :
    /\ procs[p].op = "reviewCreate" /\ procs[p].result = "Conflict"
    /\ ReviewByUserAlbum(procs[p].userId, procs[p].albumId) # {}

\* C5: every uniqueness violation the store raises on an insert or update is
\* surfaced to the caller as Conflict, so no request ever ends with the
\* store's own unique-violation error (P2002).
C5_UniqueViolationIsConflict ==
  \A p \in Procs : procs[p].pc = "done" => procs[p].result # "P2002"

\* C6: under any interleaving of concurrent resolveArtist and resolveAlbum
\* calls there is at most one Artist row per externalId and at most one Album
\* row per externalId.
C6_UniqueExternalIds ==
  /\ \A a1, a2 \in artists : a1.externalId = a2.externalId => a1 = a2
  /\ \A a1, a2 \in albums : a1.externalId = a2.externalId => a1 = a2

\* One request lost the race for an artist's external id while the other
\* went on to persist an album.
C6_Witness ==
  \E p, q \in Procs :
    /\ p # q
    /\ procs[p].artistInsert = "dup"
    /\ procs[q].artistInsert = "ok" /\ procs[q].albumInsert = "ok"

\* C7: createArtist returns the existing row without inserting when a row
\* with that externalId is visible at its re-check; of the resolveArtist calls
\* for one externalId that passed the re-check at most one insert succeeds,
\* and each other one fails with Conflict instead of returning the row that
\* now exists.
C7_Inv ==
  /\ \A p \in Procs :
       (procs[p].op = "resolveArtist" /\ procs[p].artistInsert = "dup")
       => (/\ procs[p].pc = "done" /\ procs[p].result = "Conflict"
           /\ procs[p].resId = 0
           /\ Cardinality(ArtistByExternalId(procs[p].artistExternalId)) = 1)
  /\ \A p \in Procs :
       (procs[p].op = "resolveArtist" /\ procs[p].artistInsert = "ok")
       => (/\ procs[p].pc = "done" /\ procs[p].result = "ok"
           /\ ArtistRow(procs[p].resId, procs[p].artistExternalId) \in artists)
  /\ \A p, q \in Procs :
       (/\ p # q
        /\ procs[p].artistInsert # "none" /\ procs[q].artistInsert # "none"
        /\ procs[p].artistExternalId = procs[q].artistExternalId)
       => ~(procs[p].artistInsert = "ok" /\ procs[q].artistInsert = "ok")

C7_Recheck(p) ==
  LET found == ArtistByExternalId(procs[p].artistExternalId)
  IN (procs[p].pc = "ac_find" /\ procs'[p] # procs[p] /\ found # {})
     => (/\ storeVars' = storeVars
         /\ procs'[p].artistInsert = "none"
         /\ procs[p].op = "resolveArtist"
              => (/\ procs'[p].pc = "done" /\ procs'[p].result = "ok"
                  /\ \E a \in found : a.id = procs'[p].resId))

C7_CreateArtistRace == []C7_Inv /\ [][\A p \in Procs : C7_Recheck(p)]_vars

\* Two concurrent resolveArtist calls for one id both passed the re-check:
\* one inserted, the other one got Conflict.
C7_Witness ==
  \E p, q \in Procs :
    /\ p # q
    /\ procs[p].op = "resolveArtist" /\ procs[q].op = "resolveArtist"
    /\ procs[p].externalId = procs[q].externalId
    /\ procs[p].artistInsert = "ok" /\ procs[p].result = "ok"
    /\ procs[q].artistInsert = "dup" /\ procs[q].result = "Conflict"

\* C8: a resolveArtist(e) that starts after a resolveArtist(e) succeeded
\* returns the same local id, calls no catalog and inserts nothing; exactly
\* one Artist row has externalId e, the one whose id was returned.
C8_ResolveArtistIdempotent ==
  /\ \A h \in artistReturned : ArtistByExternalId(h[1]) = {ArtistRow(h[2], h[1])}
  /\ \A p \in Procs :
       (procs[p].op = "resolveArtist" /\ procs[p].after)
       => /\ procs[p].pc \in {"ra_find", "done"}
          /\ procs[p].calls = 0
          /\ procs[p].artistInsert = "none"
          /\ procs[p].pc = "done"
               => (/\ procs[p].result = "ok"
                   /\ <<procs[p].externalId, procs[p].resId>> \in artistReturned)

\* A second resolveArtist for an id resolved before has answered.
C8_Witness ==
  \E p \in Procs :
    /\ procs[p].op = "resolveArtist" /\ procs[p].after
    /\ procs[p].pc = "done" /\ procs[p].result = "ok"
    /\ procs[p].externalId \in CatalogArtists

\* C9: whenever a local row exists for the external id, resolveArtist and
\* resolveAlbum return that row and make no catalog call; after one
\* successful resolveAlbum(e), every later resolveAlbum(e) returns the same
\* Album id and issues no catalog request.
C9_NoCatalogCallOnceResolved ==
  /\ \A p \in Procs :
       (procs[p].op \in {"resolveArtist", "resolveAlbum"} /\ procs[p].hit)
       => (procs[p].result = "ok" /\ procs[p].calls = 0)
  /\ \A p \in Procs :
       (procs[p].op = "resolveAlbum" /\ procs[p].after)
       => /\ procs[p].calls = 0
          /\ procs[p].pc = "done"
               => (/\ procs[p].result = "ok"
                   /\ <<procs[p].externalId, procs[p].resId>> \in albumReturned)

\* C10: when resolveAlbum(e) succeeds on a local miss and the catalog reports
\* artist a for album e, an Artist row with externalId a exists, it was there
\* before the Album row was inserted, and the Album row with externalId e has
\* artistId equal to that Artist's local id.
C10_Inv ==
  \A p \in Procs :
    (/\ procs[p].op = "resolveAlbum" /\ procs[p].pc = "done"
     /\ procs[p].result = "ok" /\ ~procs[p].hit)
    => \E art \in ArtistByExternalId(procs[p].artistExternalId) :
         \E al \in AlbumByExternalId(procs[p].externalId) : al.artistId = art.id

C10_Order ==
  \A al \in albums' \ albums :
    \E art \in artists : art.id = al.artistId

C10_ArtistBeforeAlbum == []C10_Inv /\ [][C10_Order]_vars

\* C11: every Review's userId is the id of an existing User and its albumId
\* the id of an existing Album, every Album's artistId is the id of an
\* existing Artist, and removing a user removes all of that user's reviews in
\* the same step and no review of another user.
C11_Inv ==
  /\ \A r \in reviews : UserById(r.userId) # {} /\ AlbumById(r.albumId) # {}
  /\ \A a \in albums : {x \in artists : x.id = a.artistId} # {}

C11_Step(p) ==
  (/\ procs[p].pc = "ur_delete" /\ procs'[p] # procs[p]
   /\ procs'[p].result = "ok")
  => (/\ {u \in users' : u.id = procs[p].userId} = {}
      /\ reviews' = {r \in reviews : r.userId # procs[p].userId})

C11_ReferentialIntegrity == []C11_Inv /\ [][\A p \in Procs : C11_Step(p)]_vars

\* A user who had written a review was removed and the review went with the
\* user, while a review of another user is still there.
C11_Witness ==
  \E p, q \in Procs :
    /\ procs[p].op = "userRemove" /\ procs[p].result = "ok"
    /\ procs[q].op = "reviewCreate" /\ procs[q].result = "ok"
    /\ procs[q].userId = procs[p].userId
    /\ ReviewById(procs[q].resId) = {}
    /\ \E r \in reviews : r.userId # procs[p].userId

\* C12: a review is NonExistent, then Created, then Updated any number of
\* times, then Deleted for good: a remove that succeeds leaves no row with
\* that id, an id the sequence has passed and that has no row never gets a
\* row again, and findOne, update and remove on an id without a row fail with
\* NotFound.
C12_Step ==
  /\ \A p \in Procs :
       (/\ procs[p].pc = "rm_write" /\ procs'[p] # procs[p]
        /\ procs'[p].result = "ok")
       => {r \in reviews' : r.id = procs[p].reviewId} = {}
  /\ \A id \in ReviewIdInputs :
       (id < nextId.review /\ ReviewById(id) = {})
       => {r \in reviews' : r.id = id} = {}
  /\ \A p \in Procs :
       (/\ procs[p].pc \in {"fo_find", "ru_find", "rm_find"}
        /\ procs'[p] # procs[p]
        /\ procs[p].reviewId < nextId.review
        /\ ReviewById(procs[p].reviewId) = {})
       => (procs'[p].result = "NotFound" /\ reviews' = reviews)

C12_DeletedIsTerminal == [][C12_Step]_vars

\* A remove of review r succeeded and a later findOne of r got NotFound,
\* while another review has been created since.
C12_Witness ==
  \E p, q \in Procs :
    /\ procs[q].op = "reviewRemove" /\ procs[q].result = "ok"
    /\ procs[p].op = "reviewFindOne" /\ procs[p].result = "NotFound"
    /\ procs[p].reviewId = procs[q].reviewId
    /\ reviews # {}

\* C13: a create for an albumId that has no Album row fails with NotFound
\* at the first check, before the duplicate-review check, and inserts no
\* review.
C13_Step(p) ==
  (/\ procs[p].pc = "rc_findAlbum" /\ procs'[p] # procs[p]
   /\ AlbumById(procs[p].albumId) = {})
  => (/\ procs'[p].pc = "done" /\ procs'[p].result = "NotFound"
      /\ storeVars' = storeVars)

C13_Inv ==
  /\ \A p \in Procs :
       procs[p].pc \in {"rc_findReview", "rc_insert"} => AlbumById(procs[p].albumId) # {}
  /\ \A r \in reviews : AlbumById(r.albumId) # {}

C13_CreateAlbumNotFound == []C13_Inv /\ [][\A p \in Procs : C13_Step(p)]_vars

\* A create for an album id without a row was answered NotFound.
C13_Witness ==
  \E p \in Procs :
    /\ procs[p].op = "reviewCreate" /\ procs[p].result = "NotFound"
    /\ AlbumById(procs[p].albumId) = {}

\* C14: an update or a remove of a review id that has no row fails with
\* NotFound whoever the actor is (existence is checked before ownership) and
\* writes nothing to the store.
C14_Step(p) ==
  (/\ procs[p].pc \in {"ru_find", "rm_find"} /\ procs'[p] # procs[p]
   /\ ReviewById(procs[p].reviewId) = {})
  => (/\ procs'[p].pc = "done" /\ procs'[p].result = "NotFound"
      /\ storeVars' = storeVars)

C14_MissingReviewNotFound == [][\A p \in Procs : C14_Step(p)]_vars

\* An update and a remove of ids without a row were both answered NotFound.
C14_Witness ==
  \E p, q \in Procs :
    /\ procs[p].op = "reviewUpdate" /\ procs[p].result = "NotFound"
    /\ procs[q].op = "reviewRemove" /\ procs[q].result = "NotFound"
    /\ ReviewById(procs[p].reviewId) = {}
    /\ ReviewById(procs[q].reviewId) = {}

\* C15: for every album id with zero review rows getRating returns exactly
\* { averageRating: 0, reviewCount: 0 }, and getRating never divides by zero.
C15_Step(p) ==
  (/\ procs[p].pc = "ar_findMany" /\ procs'[p] # procs[p]
   /\ {r \in reviews : r.albumId = procs[p].albumId} = {})
  => (/\ procs'[p].result = "ok"
      /\ procs'[p].averageRating = Zero
      /\ procs'[p].reviewCount = 0)

C15_Inv == \A p \in Procs : procs[p].averageRating # NaN

C15_NoReviewsRatesZero == []C15_Inv /\ [][\A p \in Procs : C15_Step(p)]_vars

\* getRating answered for an album without reviews while another album has some.
C15_Witness ==
  \E p \in Procs :
    /\ procs[p].op = "albumRating" /\ procs[p].result = "ok"
    /\ {r \in reviews : r.albumId = procs[p].albumId} = {}
    /\ reviews # {}
    /\ procs[p].averageRating = Zero /\ procs[p].reviewCount = 0

\* Exact arithmetic on a returned number: its binary places are read in
\* groups of ten, each group a number below 1024, so that x times a small
\* integer n is the integer part and the groups of the product.
RECURSIVE C16_Group(_, _, _)
C16_Group(bits, from, count) ==
  IF count = 0 THEN 0
  ELSE 2 * C16_Group(bits, from, count - 1)
       + (IF from + count - 1 <= Len(bits) THEN bits[from + count - 1] ELSE 0)

C16_Groups(bits) ==
  [g \in 1..((Len(bits) + 9) \div 10) |-> C16_Group(bits, 10 * (g - 1) + 1, 10)]

\* The carry that the groups after group g send into it.
RECURSIVE C16_CarryInto(_, _, _)
C16_CarryInto(groups, n, g) ==
  IF g >= Len(groups) THEN 0
  ELSE (groups[g + 1] * n + C16_CarryInto(groups, n, g + 1)) \div 1024

C16_Times(x, n) ==
  LET groups == C16_Groups(x.frac)
  IN [int |-> x.int * n + C16_CarryInto(groups, n, 0),
      groups |-> [g \in 1..Len(groups) |->
                    (groups[g] * n + C16_CarryInto(groups, n, g)) % 1024]]

C16_Is(x, i) == x.int = i /\ \A g \in 1..Len(x.groups) : x.groups[g] = 0

\* x is less than 2^-40 away from the integer i.
C16_Near(x, i) ==
  LET leading == 1..(IF Len(x.groups) < 4 THEN Len(x.groups) ELSE 4)
  IN \/ x.int = i /\ \A g \in leading : x.groups[g] = 0
     \/ x.int = i - 1 /\ \A g \in leading : x.groups[g] = 1023

C16_Rows(p) == {r \in reviews : r.albumId = procs[p].albumId}

RECURSIVE C16_Sum(_)
C16_Sum(rows) ==
  IF rows = {} THEN 0
  ELSE LET r == CHOOSE x \in rows : TRUE IN r.rating + C16_Sum(rows \ {r})

\* C16 as stated: for every album with n >= 1 review rows getRating returns
\* reviewCount = n and an averageRating with averageRating * n = the sum of
\* the ratings of exactly that album's reviews.
C16_ExactStep(p) ==
  (/\ procs[p].pc = "ar_findMany" /\ procs'[p] # procs[p]
   /\ C16_Rows(p) # {})
  => LET n == Cardinality(C16_Rows(p))
     IN /\ procs'[p].reviewCount = n
        /\ C16_Is(C16_Times(procs'[p].averageRating, n), C16_Sum(C16_Rows(p)))

C16_RoundedStep(p) ==
  (/\ procs[p].pc = "ar_findMany" /\ procs'[p] # procs[p]
   /\ C16_Rows(p) # {})
  => LET n == Cardinality(C16_Rows(p))
         sum == C16_Sum(C16_Rows(p))
         product == C16_Times(procs'[p].averageRating, n)
     IN /\ procs'[p].reviewCount = n
        /\ C16_Near(product, sum)
        /\ (sum % n = 0 => C16_Is(product, sum))

C17_Step(p) ==
  (procs[p].pc = "ls_query" /\ procs'[p].pc = "done")
  => LET pr == procs'[p]
         matching == Matching(procs[p])
         n == Cardinality(matching)
         rest == IF n > pr.skip THEN n - pr.skip ELSE 0
         page == pr.page[1]
     IN /\ pr.result = "ok"
        /\ pr.total = Some(n)
        /\ pr.hasMore = (pr.skip + pr.take < n)
        /\ Len(page) = (IF pr.take < rest THEN pr.take ELSE rest)
        /\ \A i \in 1..Len(page) : \E r \in matching : r.id = page[i]
        /\ \A i, j \in 1..Len(page) : page[i] = page[j] => i = j

C17_PageAndTotal == [][\A p \in Procs : C17_Step(p)]_vars

\* A list by album answered with a page from the middle: one row skipped,
\* one returned, one still to come.
C17_Witness ==
  \E p \in Procs :
    /\ procs[p].op = "reviewListByAlbum" /\ procs[p].result = "ok"
    /\ procs[p].skip = 1 /\ procs[p].take = 1
    /\ Len(procs[p].page[1]) = 1
    /\ procs[p].hasMore

\* C18: listByAlbum fails with NotFound when no Album row has the id and
\* listByUser fails with NotFound when no User row has the id, both without
\* querying reviews; when the parent exists and has no reviews they succeed
\* with an empty page and total 0.
C18_Step(p) ==
  /\ (/\ procs[p].pc = "la_findAlbum" /\ procs'[p] # procs[p]
      /\ AlbumById(procs[p].albumId) = {})
     => (/\ procs'[p].pc = "done" /\ procs'[p].result = "NotFound"
         /\ procs'[p].page = None /\ procs'[p].total = None)
  /\ (/\ procs[p].pc = "lu_findUser" /\ procs'[p] # procs[p]
      /\ UserById(procs[p].userId) = {})
     => (/\ procs'[p].pc = "done" /\ procs'[p].result = "NotFound"
         /\ procs'[p].page = None /\ procs'[p].total = None)
  /\ (/\ procs[p].pc = "ls_query" /\ procs'[p].pc = "done"
      /\ procs[p].op \in {"reviewListByAlbum", "reviewListByUser"}
      /\ Matching(procs[p]) = {})
     => (/\ procs'[p].result = "ok"
         /\ procs'[p].page = Some(<<>>) /\ procs'[p].total = Some(0))

C18_Inv ==
  \A p \in Procs :
    /\ procs[p].pc = "ls_query" /\ procs[p].op = "reviewListByAlbum"
       => AlbumById(procs[p].albumId) # {}
    /\ procs[p].pc = "ls_query" /\ procs[p].op = "reviewListByUser"
       => UserById(procs[p].userId) # {}

C18_ListParentNotFound == []C18_Inv /\ [][\A p \in Procs : C18_Step(p)]_vars

\* A list by album for an id without an Album row was answered NotFound and
\* no review query was made.
C18_Witness ==
  \E p \in Procs :
    /\ procs[p].op = "reviewListByAlbum" /\ procs[p].result = "NotFound"
    /\ AlbumById(procs[p].albumId) = {}
    /\ procs[p].page = None /\ procs[p].total = None

\* C19: for every catalog search result list the output of searchAlbums is,
\* in catalog order and cut to the requested limit, exactly: every entry of
\* type "album" or "ep" with its type kept, and every entry of type "single"
\* whose track count is >= 2 or unknown with albumType "ep"; a single is
\* dropped if and only if its track count is exactly 1.
C19_Stays(item) ==
  \/ item.album_type \in {"album", "ep"}
  \/ item.album_type = "single" /\ item.total_tracks # Some(1)

\* The position in the response of the j-th entry that stays.
C19_Position(items, j) ==
  CHOOSE i \in 1..Len(items) :
    /\ C19_Stays(items[i])
    /\ Cardinality({k \in 1..i : C19_Stays(items[k])}) = j

C19_Holds(pr) ==
  LET staying == Cardinality({i \in 1..Len(pr.items) : C19_Stays(pr.items[i])})
      out == pr.found[1]
  IN /\ pr.found # None
     /\ Len(out) = (IF pr.limit < staying THEN pr.limit ELSE staying)
     /\ \A j \in 1..Len(out) :
          LET item == pr.items[C19_Position(pr.items, j)]
          IN /\ out[j].externalId = item.id
             /\ out[j].albumType = (IF item.album_type = "single" THEN "ep"
                                    ELSE item.album_type)

C19_SearchFilter ==
  \A p \in Procs :
    (procs[p].op = "searchAlbums" /\ procs[p].pc = "done" /\ procs[p].result = "ok")
    => C19_Holds(procs[p])

\* A response of a one-track single, a two-track single and an album was
\* answered, with limit 1, by the two-track single as an "ep".
C19_Witness ==
  \E p \in Procs :
    /\ procs[p].op = "searchAlbums" /\ procs[p].result = "ok"
    /\ Len(procs[p].items) = 3
    /\ procs[p].items[1].album_type = "single" /\ procs[p].items[1].total_tracks = Some(1)
    /\ procs[p].items[2].album_type = "single" /\ procs[p].items[2].total_tracks = Some(2)
    /\ procs[p].items[3].album_type = "album"
    /\ procs[p].limit = 1
    /\ Len(procs[p].found[1]) = 1
    /\ procs[p].found[1][1].albumType = "ep"

\* C20: when the direct lookup of getAlbumDetails answers not-found, the
\* client goes through a fixed sequence, each step at most once: (1) a search
\* for the id, returning the result whose externalId is the requested id if
\* there is one; (2) whenever the search yields no exact match, one lookup by
\* the URL-encoded id, returning its result if it succeeds; (3) only when
\* both fail, the original not-found error. The call ends after at most
\* three catalog data requests.
C20_Rank(pc) ==
  IF pc = "idle" THEN 0
  ELSE IF pc = "gd_token" THEN 1
  ELSE IF pc = "gd_direct" THEN 2
  ELSE IF pc = "sa_token" THEN 3
  ELSE IF pc = "sa_get" THEN 4
  ELSE IF pc = "gd_altToken" THEN 5
  ELSE IF pc = "gd_alt" THEN 6
  ELSE 7

C20_Step(p) ==
  (procs[p].op = "albumDetails" /\ procs'[p] # procs[p] /\ procs[p].pc # "done")
  => LET pr == procs[p]
         nx == procs'[p]
         searched == pr.pc = "sa_get" /\ nx.found # None
         exact == ExactMatches(nx.found[1], pr.externalId) # {}
     IN /\ C20_Rank(nx.pc) > C20_Rank(pr.pc)
        /\ (searched /\ exact)
           => (/\ nx.pc = "done" /\ nx.result = "ok"
               /\ nx.detail.externalId = pr.externalId)
        /\ (searched /\ ~exact)
           => (nx.pc = "gd_altToken" /\ nx.altPath = UrlEncode(pr.externalId))
        /\ (pr.pc = "gd_alt" /\ nx.requests = 3 /\ nx.result # "NotFound")
           => (nx.result = "ok" /\ nx.detail.via = "alt")

C20_Inv ==
  \A p \in Procs :
    /\ procs[p].requests <= 3
    /\ (procs[p].op = "albumDetails" /\ procs[p].result = "NotFound")
       => (/\ procs[p].found = None \/ ExactMatches(procs[p].found[1], procs[p].externalId) = {}
           /\ procs[p].altPath = UrlEncode(procs[p].externalId))

C20_FallbackChain == []C20_Inv /\ [][\A p \in Procs : C20_Step(p)]_vars

\* C26: when two concurrent album-by-external-id requests for the same unseen
\* external id both pass the existence checks, exactly one Album insert
\* succeeds and the losing request is answered with Conflict (not with
\* NotFound and not with the existing row).
C26_AlbumRaceAnsweredConflict ==
  /\ \A p \in Procs :
       (procs[p].op = "resolveAlbum" /\ procs[p].albumInsert = "dup")
       => (/\ procs[p].pc = "done" /\ procs[p].answer = "Conflict"
           /\ procs[p].resId = 0
           /\ Cardinality(AlbumByExternalId(procs[p].catalogId)) = 1)
  /\ \A p, q \in Procs :
       (/\ p # q
        /\ procs[p].albumInsert # "none" /\ procs[q].albumInsert # "none"
        /\ procs[p].catalogId = procs[q].catalogId)
       => ~(procs[p].albumInsert = "ok" /\ procs[q].albumInsert = "ok")

\* C28: a resolveAlbum(e) call that fails leaves no Album row created by
\* that call; if it fails in the catalog album lookup the whole store is
\* unchanged, and if it fails after the owning artist was resolved the only
\* possible change is the newly persisted Artist row.
C28_Step(p) ==
  (procs[p].op = "resolveAlbum" /\ procs'[p] # procs[p] /\ procs[p].pc # "done")
  => /\ users' = users /\ reviews' = reviews
     /\ procs[p].pc \in {"al_find", "al_catalog"} => storeVars' = storeVars
     /\ albums' # albums
        => (/\ procs'[p].pc = "done" /\ procs'[p].result = "ok"
            /\ albums' = albums \cup
                 {AlbumRow(procs'[p].resId, procs[p].catalogId, procs[p].artistId)})
     /\ artists' # artists
        => \E row \in artists' :
             /\ row \notin artists
             /\ artists' = artists \cup {row}
             /\ row.externalId = procs[p].artistExternalId

C28_Inv ==
  \A p \in Procs :
    (procs[p].op = "resolveAlbum" /\ procs[p].pc = "done" /\ procs[p].result # "ok")
    => (/\ procs[p].albumInsert # "ok"
        /\ procs[p].catalogId = <<>> => procs[p].artistInsert = "none")

C28_FailedResolveAlbum == []C28_Inv /\ [][\A p \in Procs : C28_Step(p)]_vars

\* A resolveAlbum call failed at the album insert after it had persisted the
\* owning artist: the Artist row stays.
C28_Witness ==
  \E p \in Procs :
    /\ procs[p].op = "resolveAlbum" /\ procs[p].pc = "done"
    /\ procs[p].result = "Conflict"
    /\ procs[p].artistInsert = "ok"
    /\ ArtistRow(procs[p].artistId, procs[p].artistExternalId) \in artists

\* C23: after a successful create that returned id r, findOne(r) with no
\* update or remove in between returns a row whose rating and comment are
\* the inputs of the create and whose userId and albumId are its arguments:
\* the insert stores the inputs under the returned id, only update and remove
\* writes of that id change the row afterwards, and findOne answers with the
\* stored row.
C23_Step(p) ==
  /\ (procs[p].pc = "rc_insert" /\ procs'[p].pc = "done" /\ procs'[p].result = "ok")
     => \E row \in reviews' :
          /\ row.id = procs'[p].resId
          /\ row \notin reviews
          /\ Some(row.rating) = procs[p].rating /\ row.comment = procs[p].comment
          /\ row.userId = procs[p].userId /\ row.albumId = procs[p].albumId
  /\ (procs[p].pc = "fo_find" /\ procs'[p].pc = "done" /\ procs'[p].result = "ok")
     => \E row \in reviews :
          /\ row.id = procs[p].reviewId /\ procs'[p].resId = row.id
          /\ procs'[p].rating = Some(row.rating) /\ procs'[p].comment = row.comment
          /\ procs'[p].userId = row.userId /\ procs'[p].albumId = row.albumId
  /\ \A row \in reviews :
       (row \notin reviews' /\ procs'[p] # procs[p])
       => (/\ procs[p].pc \in {"ru_write", "rm_write"}
           /\ procs[p].reviewId = row.id)

C23_CreateThenFindOne == [][\A p \in Procs : C23_Step(p)]_vars

\* One request created a review with a comment and, before its response was
\* delivered, another request read the same review back.
C23_Witness ==
  \E p, q \in Procs :
    /\ procs[p].op = "reviewCreate" /\ procs[p].pc = "done" /\ procs[p].result = "ok"
    /\ procs[p].comment # None
    /\ procs[q].op = "reviewFindOne" /\ procs[q].pc = "done" /\ procs[q].result = "ok"
    /\ procs[q].resId = procs[p].resId
    /\ procs[q].rating = procs[p].rating /\ procs[q].comment = procs[p].comment
    /\ procs[q].userId = procs[p].userId /\ procs[q].albumId = procs[p].albumId

\* C27: a successful update(r, owner, patch) changes only the fields of
\* review r that are present in the patch, and only rating and comment: the
\* id, userId and albumId of r, every field absent from the patch and every
\* other row of the store stay as they were.
C27_Step(p) ==
  (procs[p].pc = "ru_write" /\ procs'[p].pc = "done" /\ procs'[p].result = "ok")
  => /\ users' = users /\ artists' = artists /\ albums' = albums
     /\ \E old \in reviews, new \in reviews' :
          /\ old.id = procs[p].reviewId /\ new.id = old.id
          /\ reviews' \ {new} = reviews \ {old}
          /\ new.userId = old.userId /\ new.albumId = old.albumId
          /\ new.rating = (IF procs[p].rating = None THEN old.rating
                           ELSE procs[p].rating[1])
          /\ new.comment = (IF procs[p].comment = None THEN old.comment
                            ELSE procs[p].comment)

C27_UpdateTouchesPatchOnly == [][\A p \in Procs : C27_Step(p)]_vars

\* An update that carried a rating and no comment succeeded on a review that
\* has a comment, next to another review.
C27_Witness ==
  \E p \in Procs :
    /\ procs[p].op = "reviewUpdate" /\ procs[p].pc = "done" /\ procs[p].result = "ok"
    /\ procs[p].rating # None /\ procs[p].comment = None
    /\ \E row \in reviews :
         /\ row.id = procs[p].resId /\ row.comment # None
         /\ row.rating = procs[p].rating[1]
    /\ Cardinality(reviews) = 2

\* C29: when a remove(r, u) runs concurrently with another remove(r, u) or
\* with an update(r, u, patch) and both pass the existence and ownership
\* checks, the row is deleted exactly once, no later state has a review r,
\* and the operation whose store write arrives after the delete fails
\* without recreating or modifying any row.
C29_Step(p) ==
  /\ (procs[p].pc \in {"ru_write", "rm_write"} /\ procs'[p] # procs[p])
     => IF ReviewById(procs[p].reviewId) = {}
          THEN /\ storeVars' = storeVars
               /\ procs'[p].pc = "done" /\ procs'[p].result = "P2025"
          ELSE /\ procs'[p].pc = "done" /\ procs'[p].result = "ok"
               /\ procs[p].pc = "rm_write"
                  => reviews' = reviews \ ReviewById(procs[p].reviewId)
  /\ \A row \in reviews' :
       (\A old \in reviews : old.id # row.id) => row.id >= nextId.review

C29_Inv == \A row \in reviews : row.id < nextId.review

C29_DeletedOnce == []C29_Inv /\ [][\A p \in Procs : C29_Step(p)]_vars

\* Two requests of the author passed the checks on the same review; the
\* remove deleted it and the update, arriving later, failed.
C29_Witness ==
  \E p, q \in Procs :
    /\ procs[p].op = "reviewRemove" /\ procs[p].pc = "done" /\ procs[p].result = "ok"
    /\ procs[q].op = "reviewUpdate" /\ procs[q].pc = "done" /\ procs[q].result = "P2025"
    /\ procs[q].reviewId = procs[p].reviewId
    /\ procs[q].userId = procs[p].userId
    /\ ReviewById(procs[p].reviewId) = {}

\* C24: no operation of the resolvers, the review manager or the user
\* service deletes or rewrites an Artist or Album row: a row that exists
\* exists unchanged, with the same local id and externalId, in every later
\* state, also after reviews and users have been removed.
C24_Step ==
  /\ \A row \in artists : row \in artists'
  /\ \A row \in albums : row \in albums'
  /\ \A row \in artists' \ artists : \A old \in artists : old.id # row.id
  /\ \A row \in albums' \ albums : \A old \in albums : old.id # row.id

C24_CatalogRowsStay == [][C24_Step]_vars

\* An album was resolved and stored, it was reviewed, and the reviewer's
\* account was removed together with the review: the Album row is still there.
C24_Witness ==
  /\ \E row \in albums : row.id >= 2
  /\ nextId.review > 1
  /\ reviews = {}
  /\ \E p \in Procs :
       /\ procs[p].op = "userRemove" /\ procs[p].pc = "done" /\ procs[p].result = "ok"
       /\ UserById(procs[p].userId) = {}

\* C25: for every review list request that supplies skip and take as
\* non-negative integers (0 included), meta.skip and meta.take of the response
\* are the supplied values and at most take reviews are returned; an omitted
\* parameter defaults to skip = 0 and take = 10.
C25_ListWindowAsSupplied ==
  \A p \in Procs :
    (/\ procs[p].op \in {"reviewList", "reviewListByAlbum", "reviewListByUser"}
     /\ procs[p].query # None
     /\ procs[p].pc = "done" /\ procs[p].result = "ok")
    => LET supplied == procs[p].query[1]
       IN /\ procs[p].skip = (IF supplied.skip = None THEN 0 ELSE supplied.skip[1])
          /\ procs[p].take = (IF supplied.take = None THEN 10 ELSE supplied.take[1])
          /\ supplied.take # None => Len(procs[p].page[1]) <= supplied.take[1]

\* C22: getArtistAlbums(artistId) never changes the store: when at least one
\* local Album row has that artistId it returns exactly those rows without
\* calling the catalog; when none has, it asks the catalog for the artist's
\* externalId, returns the catalog's records and persists nothing; when no
\* Artist row has that id it fails with NotFound.
C22_Step(p) ==
  (procs[p].op = "artistAlbums" /\ procs'[p] # procs[p] /\ procs[p].pc # "done")
  => LET id == procs[p].artistId
         artist == {a \in artists : a.id = id}
         local == {a \in albums : a.artistId = id}
         after == procs'[p]
     IN /\ storeVars' = storeVars
        /\ procs[p].pc = "ga_find"
           => IF artist = {}
                THEN after.pc = "done" /\ after.result = "NotFound"
                ELSE after.pc = "ga_findMany"
        /\ procs[p].pc = "ga_findMany"
           => IF local # {}
                THEN /\ after.pc = "done" /\ after.result = "ok"
                     /\ after.rows = local /\ after.calls = 0
                ELSE after.pc = "ga_catalog" /\ after.calls = 0
        /\ procs[p].pc = "ga_catalog"
           => /\ after.pc = "done" /\ after.calls = 1
              /\ \E a \in artist :
                   /\ procs[p].artistExternalId = a.externalId
                   /\ after.result = "ok"
                      => /\ Len(after.items) = Len(ArtistAlbumItems(a.externalId))
                         /\ \A i \in 1..Len(after.items) :
                              /\ after.items[i].externalId = ArtistAlbumItems(a.externalId)[i].id
                              /\ CatalogArtistOf(after.items[i].externalId) = a.externalId

C22_ArtistAlbumsReadOnly == [][\A p \in Procs : C22_Step(p)]_vars

\* The album list of a stored artist without local albums was answered from
\* the catalog, and the store still has no album of that artist.
C22_Witness ==
  \E p \in Procs :
    /\ procs[p].op = "artistAlbums" /\ procs[p].pc = "done" /\ procs[p].result = "ok"
    /\ procs[p].calls = 1 /\ procs[p].items # <<>>
    /\ \E a \in artists : a.id = procs[p].artistId
    /\ \A a \in albums : a.artistId # procs[p].artistId

\* C21: a catalog call performs a credential exchange exactly when no
\* credential is cached or the cached expiry is not later than now; otherwise
\* it reuses the single cached credential, and no credential is handed out
\* at or after its recorded expiry.
C21_Step(p) ==
  /\ (procs[p].op = "idle" /\ procs'[p].op = "artistDetails")
     => IF accessToken = None \/ tokenExpiry[1] <= now
          THEN procs'[p].exchanged /\ procs'[p].token = None
          ELSE /\ ~procs'[p].exchanged
               /\ procs'[p].token = accessToken
               /\ procs'[p].pc = "ad_get"
               /\ UNCHANGED <<accessToken, tokenExpiry, responses>>
  /\ (procs[p].token = None /\ procs'[p].token # None)
     => /\ accessToken' = procs'[p].token
        /\ tokenExpiry' # None /\ tokenExpiry'[1] > now'
  /\ (procs'[p].pc = "ad_get" /\ procs[p].pc # "ad_get") => procs'[p].token # None

C21_TokenReuse == [][\A p \in Procs : C21_Step(p)]_vars

\* A call was answered from the cache after an earlier token had run out and
\* had been replaced.
C21_Witness ==
  \E p \in Procs :
    /\ procs[p].op = "artistDetails" /\ ~procs[p].exchanged
    /\ procs[p].token # None /\ procs[p].token = accessToken
    /\ Cardinality(responses) >= 2

\* C30: under any interleaving of concurrent catalog calls the cached token
\* and the cached expiry come from the same token response; calls that find
\* no valid token may each make their own exchange; a failed exchange
\* (missing credentials or an upstream error) leaves the cached token and
\* expiry unchanged and fails the calling operation.
C30_Inv ==
  /\ accessToken = None => tokenExpiry = None
  /\ accessToken # None
     => \E r \in responses :
          /\ accessToken = Some(r.access_token)
          /\ tokenExpiry = Some(r.at + r.expires_in)

C30_Step(p) ==
  /\ (procs[p].op = "idle" /\ procs'[p].op = "artistDetails" /\ ~CacheValid
      /\ ~configured)
     => /\ procs'[p].pc = "done" /\ procs'[p].result # "ok"
        /\ UNCHANGED <<accessToken, tokenExpiry>>
  /\ (procs[p].pc = "tk_post" /\ procs'[p] # procs[p] /\ responses' = responses)
     => /\ procs'[p].pc = "done" /\ procs'[p].result # "ok"
        /\ procs'[p].token = None
        /\ UNCHANGED <<accessToken, tokenExpiry>>
  /\ (accessToken' # accessToken \/ tokenExpiry' # tokenExpiry)
     => \E r \in responses' \ responses :
          /\ accessToken' = Some(r.access_token)
          /\ tokenExpiry' = Some(r.at + r.expires_in)

C30_TokenAndExpiryPaired == []C30_Inv /\ [][\A p \in Procs : C30_Step(p)]_vars

\* Two calls found no valid token and each made its own exchange; the second
\* response, with the shorter life, arrived while the first token was valid
\* and is what the cache holds.
C30_Witness ==
  \E p, q \in Procs : \E rp, rq \in responses :
    /\ procs[p].exchanged /\ procs[q].exchanged
    /\ procs[p].token = Some(rp.access_token) /\ procs[q].token = Some(rq.access_token)
    /\ rp.access_token < rq.access_token
    /\ rq.at < rp.at + rp.expires_in
    /\ rq.at + rq.expires_in < rp.at + rp.expires_in
    /\ accessToken = Some(rq.access_token)
    /\ tokenExpiry = Some(rq.at + rq.expires_in)
====
